---------------------------- MODULE Spec2Model ----------------------------
(***************************************************************************)
(* A model of mermaid-icepanel: the service classifier, the Equal/Diff     *)
(* engine of api.Object, the Mermaid parser, and the two reconciliation    *)
(* workflows (the uploader's Upload and the Mermaid sync CLI's run) seen   *)
(* as the sequence of HTTP calls they issue against the remote store.      *)
(*                                                                         *)
(* Four specifications share the variables:                                *)
(*   SpecClassify  ClassifyService applied to a (name, comment) pair       *)
(*   SpecDiff      Object.Diff / Object.Equal applied to a pair of objects *)
(*   SpecParse     ParseMermaid run line by line, twice over one input     *)
(*   Spec          Upload / run, one remote call per step                  *)
(* Each leaves the variables of the others at their idle values.           *)
(***************************************************************************)
EXTENDS Integers, Sequences, FiniteSets, TLC

VARIABLES
    \* ---- classifier (generator/classifier.go)
    serviceName,    \* the service's bare name
    comment,        \* the service's leading comment
    objectType,     \* the C4ObjectType ClassifyService returned
    cpc,            \* "idle" | "input" | "classified"
    \* ---- Equal / Diff (api/client.go)
    o,              \* the receiver of Diff / Equal (NilObject for a nil pointer)
    other,          \* the argument
    diff,           \* the map Diff returned
    equal,          \* the verdict Equal returned
    dpc,            \* "idle" | "input" | "compared"
    \* ---- parser (parser/parser.go)
    lines,          \* the input, one record per line
    lineNo,         \* the number of lines the scanner has consumed
    p,              \* the mermaidParser: [objs, conns, idSeq]
    parsed,         \* the Diagrams the finished calls of ParseMermaid returned
    ppc,            \* "idle" | "scan" | "build" | "done"
    \* ---- workflows (uploader/uploader.go, the sync CLI's run)
    tool,           \* "upload" | "sync" | "idle"
    options,        \* the invocation's flags
    objectsFile,    \* the objects array of icepanel_objects.json (Upload)
    diagram,        \* the parsed Diagram (run)
    remote,         \* the remote store's content in the target scope
    calls,          \* the HTTP calls this invocation has issued, with their outcome
    pc,             \* the invocation's position
    err,            \* the error the invocation returned before any remote call ("": none)
    kind,           \* WipeVersion: index of the resource kind in hand
    ids,            \* delAll: the listed identifiers not yet deleted
    next,           \* Upload: index of the next record of the objects array
    runs,           \* how many invocations have started
    request,        \* Generate: the CodeGeneratorRequest (parameter string, files)
    speculativePathPrefix, \* Generate: the prefix read from the parameters
    genOptions,     \* Generate: the Options parsePluginParameters returned
    fileNo,         \* Generate: how many of the request's files have been taken
    extracted,      \* Generate: the objects extracted so far
    output,         \* the content of icepanel_objects.json, NoFile when none is written
    loaded,         \* Upload: what json.Unmarshal makes of that content
    gpc,            \* Generate's position
    env,            \* the process environment: ICEPANEL_TIMEOUT_SECONDS
    cfg,            \* the Config NewConfig returned
    kpc             \* NewConfig's position

classVars == <<serviceName, comment, objectType, cpc>>
diffVars  == <<o, other, diff, equal, dpc>>
parseVars == <<lines, lineNo, p, parsed, ppc>>
flowVars  == <<tool, options, objectsFile, diagram, remote, calls, pc, err, kind, ids, next, runs>>
genVars   == <<request, speculativePathPrefix, genOptions, fileNo, extracted, output, loaded, gpc>>
cfgVars   == <<env, cfg, kpc>>
vars      == <<classVars, diffVars, parseVars, flowVars, genVars, cfgVars>>

-----------------------------------------------------------------------------
(* Text: Go strings are TLA+ strings; strings.Contains, strings.ToLower and  *)
(* strings.ReplaceAll are computed character by character.                   *)

\* strings.Contains(s, substr)
Contains(s, substr) ==
    \E i \in 1..(Len(s) - Len(substr) + 1) : SubSeq(s, i, i + Len(substr) - 1) = substr

\* unicode.ToLower on one character (the ASCII letters the inputs use)
LowerChar(c) ==
    CASE c = "A" -> "a" [] c = "B" -> "b" [] c = "C" -> "c" [] c = "D" -> "d"
      [] c = "E" -> "e" [] c = "F" -> "f" [] c = "G" -> "g" [] c = "H" -> "h"
      [] c = "I" -> "i" [] c = "J" -> "j" [] c = "K" -> "k" [] c = "L" -> "l"
      [] c = "M" -> "m" [] c = "N" -> "n" [] c = "O" -> "o" [] c = "P" -> "p"
      [] c = "Q" -> "q" [] c = "R" -> "r" [] c = "S" -> "s" [] c = "T" -> "t"
      [] c = "U" -> "u" [] c = "V" -> "v" [] c = "W" -> "w" [] c = "X" -> "x"
      [] c = "Y" -> "y" [] c = "Z" -> "z" [] OTHER -> c

RECURSIVE ToLower(_)
\* strings.ToLower(s)
ToLower(s) ==
    IF Len(s) = 0 THEN ""
    ELSE LowerChar(SubSeq(s, 1, 1)) \o ToLower(SubSeq(s, 2, Len(s)))

RECURSIVE ReplaceSpaces(_)
\* strings.ReplaceAll(s, " ", "-")
ReplaceSpaces(s) ==
    IF Len(s) = 0 THEN ""
    ELSE (IF SubSeq(s, 1, 1) = " " THEN "-" ELSE SubSeq(s, 1, 1))
         \o ReplaceSpaces(SubSeq(s, 2, Len(s)))

RECURSIVE Concat(_)
\* the concatenation of a sequence of strings
Concat(parts) ==
    IF Len(parts) = 0 THEN "" ELSE Head(parts) \o Concat(Tail(parts))

Range(s) == {s[i] : i \in DOMAIN s}

\* the sequences over S of length at most n
SeqUpTo(S, n) == UNION {[1..k -> S] : k \in 0..n}

-----------------------------------------------------------------------------
(* The classifier: generator/classifier.go.                                  *)

C4System    == "System"
C4SystemExt == "System_Ext"
C4SystemDb  == "SystemDb"

\* NewDefaultClassifier
ExternalPatterns == <<"External", "Ext", "ThirdParty", "Partner", "Provider">>
DatabasePatterns == <<"Database", "DB", "Repository", "Storage", "Persistence">>

\* the term lists of ClassifyBasedOnComment
dbTerms  == <<"database", "persistence", "storage", "repository">>
extTerms == <<"external", "third-party", "integration", "external service">>

\* a `for _, t := range list { if strings.Contains(s, t) { return ... } }` loop
\* returns exactly when some element of the list is contained in s
MatchesAny(s, list) == \E i \in 1..Len(list) : Contains(s, list[i])

\* (*ServiceClassifier).ClassifyService(serviceName): the name alone
ClassifyByName(name) ==
    IF MatchesAny(name, DatabasePatterns) THEN C4SystemDb
    ELSE IF MatchesAny(name, ExternalPatterns) THEN C4SystemExt
    ELSE C4System

\* a slip of ClassifyBasedOnComment: the external terms are tried first
ClassifyBasedOnCommentExtFirst(c) ==
    LET lowerComment == ToLower(c) IN
    IF MatchesAny(lowerComment, extTerms) THEN C4SystemExt
    ELSE IF MatchesAny(lowerComment, dbTerms) THEN C4SystemDb
    ELSE ""

\* (*ServiceClassifier).ClassifyBasedOnComment(comment); "" is "unknown"
ClassifyBasedOnComment(c) ==
    LET lowerComment == ToLower(c) IN
    IF MatchesAny(lowerComment, dbTerms) THEN C4SystemDb
    ELSE IF MatchesAny(lowerComment, extTerms) THEN C4SystemExt
    ELSE ""

\* a slip of ClassifyService: the name is consulted before the comment
ClassifyServiceNameFirst(name, c) ==
    IF ClassifyByName(name) # C4System THEN ClassifyByName(name)
    ELSE IF ClassifyBasedOnComment(c) # "" THEN ClassifyBasedOnComment(c)
    ELSE C4System

\* the package-level ClassifyService(serviceName, comment)
ClassifyService(name, c) ==
    LET commentType == ClassifyBasedOnComment(c) IN
    IF commentType # "" THEN commentType ELSE ClassifyByName(name)

\* how many parts a generated service name / comment is put together from
MaxNameParts    == 3
MaxCommentParts == 2

NameParts    == {"Payments", "Database", "Service", "External", "DB"}
CommentParts == {"An External system. ", "Keeps the Storage. ", "integration ", "Handles users. "}

ServiceNames == {Concat(s) : s \in SeqUpTo(NameParts, MaxNameParts)}
Comments     == {Concat(s) : s \in SeqUpTo(CommentParts, MaxCommentParts)}

-----------------------------------------------------------------------------
(* The Equal/Diff engine: api/client.go.                                     *)
(* A *Object is NilObject (the nil pointer) or a record of the struct's      *)
(* fields.  Props is a function from its keys to interface{} values; a value *)
(* carries its dynamic Go type, so that encoding/json decides equality.      *)

NilObject == [nil |-> TRUE]

StringValue(s) == [t |-> "string", s |-> s]
IntValue(n)    == [t |-> "int", n |-> n]
FloatValue(n)  == [t |-> "float64", n |-> n]     \* an integral float64
BoolValue(b)   == [t |-> "bool", b |-> b]
NilValue       == [t |-> "nil"]                  \* the nil interface{}

Object(h, n, d, ty, props) ==
    [Handle |-> h, Name |-> n, Desc |-> d, Type |-> ty, Props |-> props]

EmptyMap == [k \in {} |-> NilValue]

Digit(n) ==
    CASE n = 0 -> "0" [] n = 1 -> "1" [] n = 2 -> "2" [] n = 3 -> "3" [] n = 4 -> "4"
      [] n = 5 -> "5" [] n = 6 -> "6" [] n = 7 -> "7" [] n = 8 -> "8" [] n = 9 -> "9"

RECURSIVE Decimal(_)
\* the decimal digits of a natural number (%d)
Decimal(n) == IF n < 10 THEN Digit(n) ELSE Decimal(n \div 10) \o Digit(n % 10)

\* json.Marshal of an interface{} value: strings are quoted, an int and an
\* integral float64 both print their digits, a nil interface prints null
Marshal(v) ==
    CASE v.t = "string"  -> "\"" \o v.s \o "\""
      [] v.t = "int"     -> Decimal(v.n)
      [] v.t = "float64" -> Decimal(v.n)
      [] v.t = "bool"    -> (IF v.b THEN "true" ELSE "false")
      [] v.t = "nil"     -> "null"

\* equalInterface(a, b): the two encodings are the same bytes
equalInterface(a, b) == Marshal(a) = Marshal(b)

\* a slip of Equal: the Handle is compared with the other fields
EqualComparingHandle(a, b) ==
    IF a = NilObject \/ b = NilObject THEN a = b
    ELSE IF a.Handle # b.Handle \/ a.Name # b.Name \/ a.Desc # b.Desc \/ a.Type # b.Type THEN FALSE
    ELSE IF Cardinality(DOMAIN a.Props) # Cardinality(DOMAIN b.Props) THEN FALSE
    ELSE \A k \in DOMAIN a.Props :
            k \in DOMAIN b.Props /\ Marshal(a.Props[k]) = Marshal(b.Props[k])

\* (o *Object) Equal(other *Object)
Equal(a, b) ==
    IF a = NilObject \/ b = NilObject THEN a = b
    ELSE IF a.Name # b.Name \/ a.Desc # b.Desc \/ a.Type # b.Type THEN FALSE
    ELSE IF Cardinality(DOMAIN a.Props) # Cardinality(DOMAIN b.Props) THEN FALSE
    ELSE \A k \in DOMAIN a.Props :
            k \in DOMAIN b.Props /\ equalInterface(a.Props[k], b.Props[k])

\* a slip of Diff: the second loop, over other.Props, is missing
DiffKeysOneSided(a, b) ==
    (IF a.Name # b.Name THEN {"Name"} ELSE {})
    \cup (IF a.Desc # b.Desc THEN {"Desc"} ELSE {})
    \cup (IF a.Type # b.Type THEN {"Type"} ELSE {})
    \cup {"Props." \o k : k \in {j \in DOMAIN a.Props :
              j \notin DOMAIN b.Props \/ Marshal(a.Props[j]) # Marshal(b.Props[j])}}

\* the keys Diff writes for two present objects
DiffKeys(a, b) ==
    (IF a.Name # b.Name THEN {"Name"} ELSE {})
    \cup (IF a.Desc # b.Desc THEN {"Desc"} ELSE {})
    \cup (IF a.Type # b.Type THEN {"Type"} ELSE {})
    \cup {"Props." \o k : k \in {j \in DOMAIN a.Props :
              j \notin DOMAIN b.Props \/ ~equalInterface(a.Props[j], b.Props[j])}}
    \cup {"Props." \o k : k \in DOMAIN b.Props \ DOMAIN a.Props}

\* the [2]interface{} Diff stores under a key; for a key of a.Props missing in
\* b.Props, `ov` is the zero value of interface{}: nil
DiffEntry(a, b, key) ==
    CASE key = "Name" -> <<StringValue(a.Name), StringValue(b.Name)>>
      [] key = "Desc" -> <<StringValue(a.Desc), StringValue(b.Desc)>>
      [] key = "Type" -> <<StringValue(a.Type), StringValue(b.Type)>>
      [] OTHER ->
          LET k == CHOOSE j \in DOMAIN a.Props \cup DOMAIN b.Props : "Props." \o j = key IN
          IF k \in DOMAIN a.Props
          THEN <<a.Props[k], IF k \in DOMAIN b.Props THEN b.Props[k] ELSE NilValue>>
          ELSE <<NilValue, b.Props[k]>>

\* a slip of Diff: no test for a nil side, the absent side read as an empty object
DiffWithoutNilCheck(a, b) ==
    LET e == Object("", "", "", "", EmptyMap)
        x == IF a = NilObject THEN e ELSE a
        y == IF b = NilObject THEN e ELSE b
    IN [key \in DiffKeys(x, y) |-> DiffEntry(x, y, key)]

\* (o *Object) Diff(other *Object)
Diff(a, b) ==
    IF a = NilObject \/ b = NilObject
    THEN [key \in {"nil"} |-> <<a, b>>]
    ELSE [key \in DiffKeys(a, b) |-> DiffEntry(a, b, key)]

\* how many property keys a generated object carries at most
MaxPropKeys == 1

PropKeys   == {"foo", "x"}
PropValues == {StringValue("bar"), IntValue(1), FloatValue(1)}
PropMaps   == UNION {[K -> PropValues] : K \in {S \in SUBSET PropKeys : Cardinality(S) <= MaxPropKeys}}

Objects ==
    {Object(h, n, d, ty, props) :
        h \in {"h1", "h2"}, n \in {"A", "B"}, d \in {"desc", "desc2"},
        ty \in {"system", "actor"}, props \in PropMaps}

-----------------------------------------------------------------------------
(* The Mermaid parser: parser/parser.go.                                     *)
(* A line is its text.  The five regular expressions are matched as regexp   *)
(* matches them: anchored at the start, unanchored at the end, [^,]+ up to   *)
(* the first comma, "([^"]+)" up to the next quote, \s* over blanks.         *)

HasPrefix(s, prefix) == Len(s) >= Len(prefix) /\ SubSeq(s, 1, Len(prefix)) = prefix
Drop(s, n) == SubSeq(s, n + 1, Len(s))

\* strings.Index(s, ch) + 1 for a one-character ch: 0 when ch is not in s
IndexOf(s, ch) ==
    IF \E i \in 1..Len(s) : SubSeq(s, i, i) = ch
    THEN CHOOSE i \in 1..Len(s) :
            SubSeq(s, i, i) = ch /\ \A j \in 1..(i - 1) : SubSeq(s, j, j) # ch
    ELSE 0

RECURSIVE TrimLeft(_)
TrimLeft(s) == IF HasPrefix(s, " ") THEN TrimLeft(Drop(s, 1)) ELSE s

RECURSIVE TrimRight(_)
TrimRight(s) ==
    IF Len(s) > 0 /\ SubSeq(s, Len(s), Len(s)) = " "
    THEN TrimRight(SubSeq(s, 1, Len(s) - 1)) ELSE s

\* strings.TrimSpace(s)
TrimSpace(s) == TrimRight(TrimLeft(s))

NoMatch == [ok |-> FALSE]

\* ([^,]+), at the start of s
MatchIdent(s) ==
    LET i == IndexOf(s, ",") IN
    IF i >= 2 THEN [ok |-> TRUE, g |-> SubSeq(s, 1, i - 1), rest |-> Drop(s, i)]
    ELSE NoMatch

\* \s*([^,]+), at the start of s: \s* is greedy and gives one blank back
\* when nothing else is left for the group
MatchSecondIdent(s) ==
    LET i == IndexOf(s, ",")
        x == SubSeq(s, 1, i - 1)
    IN  IF i < 2 THEN NoMatch
        ELSE [ok |-> TRUE,
              g |-> IF TrimLeft(x) # "" THEN TrimLeft(x) ELSE SubSeq(x, Len(x), Len(x)),
              rest |-> Drop(s, i)]

\* \s*"([^"]+)" at the start of s
MatchQuoted(s) ==
    LET t == TrimLeft(s)
        j == IndexOf(Drop(t, 1), "\"")
    IN  IF HasPrefix(t, "\"") /\ j >= 2
        THEN [ok |-> TRUE, g |-> SubSeq(t, 2, j), rest |-> Drop(t, j + 1)]
        ELSE NoMatch

\* ([^,]+),\s*"([^"]+)"(?:,\s*"([^"]+)")?\)  after the opening parenthesis
MatchDecl(s) ==
    LET a == MatchIdent(s) IN
    IF ~a.ok THEN NoMatch ELSE
    LET b == MatchQuoted(a.rest) IN
    IF ~b.ok THEN NoMatch ELSE
    LET c == IF HasPrefix(b.rest, ",") THEN MatchQuoted(Drop(b.rest, 1)) ELSE NoMatch IN
    IF c.ok /\ HasPrefix(c.rest, ")")
    THEN [ok |-> TRUE, id |-> a.g, name |-> b.g, desc |-> c.g]
    ELSE IF HasPrefix(b.rest, ")")
    THEN [ok |-> TRUE, id |-> a.g, name |-> b.g, desc |-> ""]
    ELSE NoMatch

\* rePerson
MatchPerson(line) ==
    IF HasPrefix(line, "Person(") THEN MatchDecl(Drop(line, 7)) ELSE NoMatch

\* reSystem; suffix is the (_Ext|Db)? group
MatchSystem(line) ==
    LET suffix == IF HasPrefix(line, "System_Ext(") THEN "_Ext"
                  ELSE IF HasPrefix(line, "SystemDb(") THEN "Db"
                  ELSE ""
        m == IF HasPrefix(line, "System" \o suffix \o "(")
             THEN MatchDecl(Drop(line, 7 + Len(suffix))) ELSE NoMatch
    IN  IF m.ok THEN [ok |-> TRUE, suffix |-> suffix, id |-> m.id, name |-> m.name, desc |-> m.desc]
        ELSE NoMatch

\* a slip of reBound: the pattern is anchored at the end of the line as well,
\* so the opening brace after the declaration defeats it
MatchBoundAnchoredAtEnd(line) ==
    IF ~HasPrefix(line, "System_Boundary(") THEN NoMatch ELSE
    LET a == MatchIdent(Drop(line, 16)) IN
    IF ~a.ok THEN NoMatch ELSE
    LET b == MatchQuoted(a.rest) IN
    IF b.ok /\ b.rest = ")" THEN [ok |-> TRUE, id |-> a.g, name |-> b.g]
    ELSE NoMatch

\* reBound
MatchBound(line) ==
    IF ~HasPrefix(line, "System_Boundary(") THEN NoMatch ELSE
    LET a == MatchIdent(Drop(line, 16)) IN
    IF ~a.ok THEN NoMatch ELSE
    LET b == MatchQuoted(a.rest) IN
    IF b.ok /\ HasPrefix(b.rest, ")") THEN [ok |-> TRUE, id |-> a.g, name |-> b.g]
    ELSE NoMatch

\* reRel
MatchRel(line) ==
    LET bi == HasPrefix(line, "BiRel(")
        s  == IF bi THEN Drop(line, 6) ELSE Drop(line, 4)
    IN  IF ~(bi \/ HasPrefix(line, "Rel(")) THEN NoMatch ELSE
        LET a == MatchIdent(s) IN
        IF ~a.ok THEN NoMatch ELSE
        LET b == MatchSecondIdent(a.rest) IN
        IF ~b.ok THEN NoMatch ELSE
        LET c == MatchQuoted(b.rest) IN
        IF c.ok /\ HasPrefix(c.rest, ")")
        THEN [ok |-> TRUE, bidi |-> bi, from |-> a.g, to |-> b.g, label |-> c.g]
        ELSE NoMatch

\* reEndBound
MatchEndBound(line) == HasPrefix(line, "}")

\* slug(id)
slug(id) == ToLower(ReplaceSpaces(id))

\* %04d: at least four digits, padded with zeros
Pad4(n) ==
    LET d == Decimal(n) IN
    IF Len(d) >= 4 THEN d ELSE SubSeq("0000", 1, 4 - Len(d)) \o d

\* the handle nextHandle returns once idSeq has been incremented to n
Handle(n) == "h" \o Pad4(n)

Connection(h, from, to, label) == [Handle |-> h, From |-> from, To |-> to, Label |-> label]

\* a slip of newMermaidParser: the handle counter outlives the parser
newMermaidParserKeepingSeq(prev) ==
    [objs |-> EmptyMap, conns |-> <<>>, idSeq |-> IF prev = NilObject THEN 0 ELSE prev.idSeq]

\* newMermaidParser(); prev is the parser of the call before, which it ignores
newMermaidParser(prev) == [objs |-> EmptyMap, conns |-> <<>>, idSeq |-> 0]

\* (p *mermaidParser).addObj(id, name, desc, typ)
addObj(q, id, name, desc, typ) ==
    IF id \in DOMAIN q.objs THEN q
    ELSE [q EXCEPT !.objs = [k \in DOMAIN q.objs \cup {id} |->
            IF k = id THEN Object(slug(id), name, desc, typ, EmptyMap) ELSE q.objs[k]]]

\* a slip of addConn: the second Edge of a BiRel reuses the first one's handle
addConnOneHandle(q, from, to, label, bidi) ==
    LET h == Handle(q.idSeq + 1)
        first == Connection(h, slug(from), slug(to), label)
    IN  [q EXCEPT !.idSeq = q.idSeq + 1,
                  !.conns = IF bidi
                            THEN q.conns \o <<first, Connection(h, slug(to), slug(from), label)>>
                            ELSE Append(q.conns, first)]

\* (p *mermaidParser).addConn(from, to, label, bidi)
addConn(q, from, to, label, bidi) ==
    LET h  == Handle(q.idSeq + 1)
        h2 == Handle(q.idSeq + 2)
        first == Connection(h, slug(from), slug(to), label)
    IN  IF bidi
        THEN [q EXCEPT !.idSeq = q.idSeq + 2,
                       !.conns = q.conns \o <<first, Connection(h2, slug(to), slug(from), label)>>]
        ELSE [q EXCEPT !.idSeq = q.idSeq + 1, !.conns = Append(q.conns, first)]

\* the Props assignment of the "_Ext" case: it follows addObj and is applied to
\* whatever object the identifier maps to
SetExternal(q, id) ==
    [q EXCEPT !.objs[id].Props = [k \in {"external"} |-> BoolValue(TRUE)]]

\* the body of ParseMermaid's scanner loop for one line
ParseLine(q, text) ==
    LET line == TrimSpace(text) IN
    IF line = "" \/ HasPrefix(line, "//") THEN q
    ELSE IF MatchPerson(line).ok
    THEN LET m == MatchPerson(line) IN addObj(q, m.id, m.name, m.desc, "actor")
    ELSE IF MatchSystem(line).ok
    THEN LET m == MatchSystem(line) IN
         CASE m.suffix = "_Ext" -> SetExternal(addObj(q, m.id, m.name, m.desc, "system"), m.id)
           [] m.suffix = "Db"   -> addObj(q, m.id, m.name, m.desc, "store")
           [] OTHER             -> addObj(q, m.id, m.name, m.desc, "system")
    ELSE IF MatchBound(line).ok
    THEN LET m == MatchBound(line) IN addObj(q, m.id, m.name, "", "group")
    ELSE IF MatchRel(line).ok
    THEN LET m == MatchRel(line) IN addConn(q, m.from, m.to, m.label, m.bidi)
    ELSE IF MatchEndBound(line) THEN q
    ELSE q

\* the orders in which `for _, o := range p.objs` may visit a map's values
Orders(f) ==
    {s \in [1..Cardinality(DOMAIN f) -> DOMAIN f] : \A k \in DOMAIN f : \E i \in DOMAIN s : s[i] = k}

\* the Diagram ParseMermaid builds, its Objects in the order `order` of the keys
BuildDiagram(q, order) ==
    [Name |-> "Imported Diagram", Type |-> "app-diagram",
     Objects |-> [i \in DOMAIN order |-> q.objs[order[i]]],
     Connections |-> q.conns]

-----------------------------------------------------------------------------
(* The descriptor front end: generator.go.  Generate reads the plugin        *)
(* parameters, extracts the objects of every file to generate and writes     *)
(* icepanel_objects.json, which Upload later reads with json.Unmarshal.      *)

C4SystemBoundary == "System_Boundary"

C4Object(id, name, desc, typ, pkg, isSpeculative) ==
    [ID |-> id, Name |-> name, Description |-> desc, Type |-> typ, Technology |-> "",
     Package |-> pkg, IsSpeculative |-> isSpeculative]

\* Options
Options(landscapeID, versionID, wipe) ==
    [LandscapeID |-> landscapeID, VersionID |-> versionID, Wipe |-> wipe]

RECURSIVE Split(_, _)
\* strings.Split(s, sep) for a one-character sep
Split(s, sep) ==
    LET i == IndexOf(s, sep) IN
    IF i = 0 THEN <<s>> ELSE <<SubSeq(s, 1, i - 1)>> \o Split(Drop(s, i), sep)

\* strings.SplitN(s, sep, 2) for a one-character sep
SplitN2(s, sep) ==
    LET i == IndexOf(s, sep) IN
    IF i = 0 THEN <<s>> ELSE <<SubSeq(s, 1, i - 1), Drop(s, i)>>

\* strings.TrimSuffix(s, suffix)
TrimSuffix(s, suffix) ==
    IF Len(s) >= Len(suffix) /\ SubSeq(s, Len(s) - Len(suffix) + 1, Len(s)) = suffix
    THEN SubSeq(s, 1, Len(s) - Len(suffix)) ELSE s

RECURSIVE CommentLines(_)
CommentLines(ls) ==
    IF Len(ls) = 0 THEN "" ELSE "//" \o Head(ls) \o "\n" \o CommentLines(Tail(ls))

\* protogen.Comments.String(): "" for no comment, otherwise every line of the
\* comment behind "//" and closed by a line end
CommentsString(c) ==
    IF c = "" THEN "" ELSE CommentLines(Split(TrimSuffix(c, "\n"), "\n"))

\* the Options after one `key=value` parameter
ApplyParam(opts, param) ==
    LET parts == SplitN2(param, "=") IN
    IF Len(parts) # 2 THEN opts
    ELSE LET key == TrimSpace(parts[1])
             value == TrimSpace(parts[2])
         IN  CASE key = "landscape" -> [opts EXCEPT !.LandscapeID = value]
               [] key = "version"   -> [opts EXCEPT !.VersionID = value]
               [] key = "wipe"      -> [opts EXCEPT !.Wipe = value \in {"true", "1", "yes"}]
               [] OTHER             -> opts

RECURSIVE ApplyParams(_, _)
ApplyParams(opts, params) ==
    IF Len(params) = 0 THEN opts ELSE ApplyParams(ApplyParam(opts, Head(params)), Tail(params))

\* parsePluginParameters(paramString)
parsePluginParameters(paramString) ==
    IF paramString = "" THEN Options("", "", FALSE)
    ELSE ApplyParams(Options("", "", FALSE), Split(paramString, ","))

RECURSIVE FirstPrefix(_)
FirstPrefix(parts) ==
    IF Len(parts) = 0 THEN ""
    ELSE LET kv == SplitN2(Head(parts), "=") IN
         IF Len(kv) = 2 /\ kv[1] = "speculative_protos_path_prefix" THEN kv[2]
         ELSE FirstPrefix(Tail(parts))

\* Generate: the speculative path prefix of the parameter string
SpeculativePrefixOf(params) ==
    IF params = "" THEN "" ELSE FirstPrefix(Split(params, ","))

\* a slip of processProtoFile: the prefix is not tested for emptiness
IsSpeculativeEmptyPrefixToo(path, prefix) == HasPrefix(path, prefix)

\* processProtoFile: isSpeculative
IsSpeculative(path, prefix) == prefix # "" /\ HasPrefix(path, prefix)

\* processProtoFile: the object of one service
ServiceObject(service, packageName, isSpeculative) ==
    LET serviceComment == CommentsString(service.Leading) IN
    C4Object("service-" \o service.Name, service.Name, serviceComment,
             ClassifyService(service.Name, serviceComment), packageName, isSpeculative)

\* processProtoFile(file, speculativePathPrefix)
processProtoFile(file, prefix) ==
    LET isSpeculative == IsSpeculative(file.Path, prefix)
        packageName == file.Package
    IN  (IF packageName # ""
         THEN <<C4Object("boundary-" \o packageName, packageName, "Package: " \o packageName,
                         C4SystemBoundary, packageName, isSpeculative)>>
         ELSE <<>>)
        \o [i \in DOMAIN file.Services |-> ServiceObject(file.Services[i], packageName, isSpeculative)]

\* fmt's %t
FormatBool(b) == IF b THEN "true" ELSE "false"

RECURSIVE ObjectsText(_)
\* generateIcePanelOutput: the loop over the objects; %s writes a string as it is
ObjectsText(objs) ==
    IF Len(objs) = 0 THEN ""
    ELSE LET obj == Head(objs) IN
         "    {\n"
         \o "      \"id\": \"" \o obj.ID \o "\",\n"
         \o "      \"name\": \"" \o obj.Name \o "\",\n"
         \o "      \"description\": \"" \o obj.Description \o "\",\n"
         \o "      \"type\": \"" \o obj.Type \o "\",\n"
         \o "      \"package\": \"" \o obj.Package \o "\",\n"
         \o "      \"isSpeculative\": " \o FormatBool(obj.IsSpeculative) \o "\n"
         \o "    }"
         \o (IF Len(objs) > 1 THEN ",\n" ELSE "\n")
         \o ObjectsText(Tail(objs))

\* generateIcePanelOutput: the config block
ConfigText(opts) ==
    IF opts.LandscapeID # "" \/ opts.VersionID # ""
    THEN "  \"config\": {\n"
         \o (IF opts.LandscapeID # ""
             THEN "    \"landscapeId\": \"" \o opts.LandscapeID \o "\",\n" ELSE "")
         \o (IF opts.VersionID # ""
             THEN "    \"versionId\": \"" \o opts.VersionID \o "\",\n" ELSE "")
         \o "    \"wipe\": " \o FormatBool(opts.Wipe) \o "\n"
         \o "  },\n"
    ELSE ""

\* generateIcePanelOutput(objects, options)
generateIcePanelOutput(objs, opts) ==
    "{\n" \o ConfigText(opts) \o "  \"objects\": [\n" \o ObjectsText(objs) \o "  ]\n" \o "}\n"

\* ---- encoding/json, as far as json.Unmarshal(data, &objectsFile) goes: the
\* documents are objects, arrays, strings, true, false and null

JString(str)    == [t |-> "string", s |-> str]
JBool(b)        == [t |-> "bool", b |-> b]
JNull           == [t |-> "null"]
JObject(members) == [t |-> "object", members |-> members]
JArray(elems)   == [t |-> "array", elems |-> elems]

\* a syntax error
Fail == [ok |-> FALSE]
Parsed(val, pos) == [ok |-> TRUE, val |-> val, pos |-> pos]

\* the character at position i, "" behind the end
Char(text, i) == IF i <= Len(text) THEN SubSeq(text, i, i) ELSE ""

RECURSIVE SkipWs(_, _)
SkipWs(text, i) == IF Char(text, i) \in {" ", "\n", "\t", "\r"} THEN SkipWs(text, i + 1) ELSE i

\* the escapes of a string literal and what they stand for (\b and \uXXXX do
\* not occur in the documents)
Escapes ==
    ("\"" :> "\"") @@ ("\\" :> "\\") @@ ("/" :> "/")
    @@ ("n" :> "\n") @@ ("t" :> "\t") @@ ("r" :> "\r") @@ ("f" :> "\f")

RECURSIVE ScanString(_, _, _)
\* a string literal from behind its opening quote: a control character in it
\* is a syntax error, as is an unknown escape
ScanString(text, i, acc) ==
    LET c == Char(text, i) IN
    IF c = "" THEN Fail
    ELSE IF c = "\"" THEN Parsed(JString(acc), i + 1)
    ELSE IF c = "\\"
    THEN (IF Char(text, i + 1) \in DOMAIN Escapes
          THEN ScanString(text, i + 2, acc \o Escapes[Char(text, i + 1)])
          ELSE Fail)
    ELSE IF c \in {"\n", "\t", "\r", "\f"} THEN Fail
    ELSE ScanString(text, i + 1, acc \o c)

RECURSIVE ParseValue(_, _)
RECURSIVE ParseMembers(_, _, _)
RECURSIVE ParseElements(_, _, _)

\* the members of an object from its first key on
ParseMembers(text, i, acc) ==
    IF Char(text, i) # "\"" THEN Fail ELSE
    LET k == ScanString(text, i + 1, "") IN
    IF ~k.ok THEN Fail ELSE
    LET j == SkipWs(text, k.pos) IN
    IF Char(text, j) # ":" THEN Fail ELSE
    LET v == ParseValue(text, j + 1) IN
    IF ~v.ok THEN Fail ELSE
    LET m == SkipWs(text, v.pos)
        all == Append(acc, [k |-> k.val.s, v |-> v.val])
    IN  IF Char(text, m) = "," THEN ParseMembers(text, SkipWs(text, m + 1), all)
        ELSE IF Char(text, m) = "}" THEN Parsed(JObject(all), m + 1)
        ELSE Fail

\* the elements of an array from its first one on
ParseElements(text, i, acc) ==
    LET v == ParseValue(text, i) IN
    IF ~v.ok THEN Fail ELSE
    LET m == SkipWs(text, v.pos)
        all == Append(acc, v.val)
    IN  IF Char(text, m) = "," THEN ParseElements(text, m + 1, all)
        ELSE IF Char(text, m) = "]" THEN Parsed(JArray(all), m + 1)
        ELSE Fail

ParseValue(text, start) ==
    LET i == SkipWs(text, start)
        c == Char(text, i)
    IN  IF c = "{"
        THEN (IF Char(text, SkipWs(text, i + 1)) = "}"
              THEN Parsed(JObject(<<>>), SkipWs(text, i + 1) + 1)
              ELSE ParseMembers(text, SkipWs(text, i + 1), <<>>))
        ELSE IF c = "["
        THEN (IF Char(text, SkipWs(text, i + 1)) = "]"
              THEN Parsed(JArray(<<>>), SkipWs(text, i + 1) + 1)
              ELSE ParseElements(text, i + 1, <<>>))
        ELSE IF c = "\"" THEN ScanString(text, i + 1, "")
        ELSE IF SubSeq(text, i, i + 3) = "true" THEN Parsed(JBool(TRUE), i + 4)
        ELSE IF SubSeq(text, i, i + 4) = "false" THEN Parsed(JBool(FALSE), i + 5)
        ELSE IF SubSeq(text, i, i + 3) = "null" THEN Parsed(JNull, i + 4)
        ELSE Fail

-----------------------------------------------------------------------------
(* Idle values: what a specification leaves the other components at.         *)

ClassIdle ==
    /\ serviceName = "" /\ comment = "" /\ objectType = "" /\ cpc = "idle"
DiffIdle ==
    /\ o = NilObject /\ other = NilObject /\ diff = EmptyMap /\ equal = FALSE /\ dpc = "idle"
ParseIdle ==
    /\ lines = <<>> /\ lineNo = 0 /\ p = newMermaidParser(NilObject)
    /\ parsed = <<>> /\ ppc = "idle"
FlowIdle ==
    /\ tool = "idle" /\ options = [wipe |-> FALSE, dryRun |-> FALSE]
    /\ objectsFile = <<>> /\ diagram = NilObject
    /\ remote = NilObject /\ calls = <<>> /\ pc = "idle" /\ err = ""
    /\ kind = 0 /\ ids = <<>> /\ next = 0 /\ runs = 0

GenIdle ==
    /\ request = NilObject /\ speculativePathPrefix = "" /\ genOptions = NilObject
    /\ fileNo = 0 /\ extracted = <<>> /\ output = NilObject /\ loaded = NilObject
    /\ gpc = "idle"

CfgIdle == env = NilObject /\ cfg = NilObject /\ kpc = "idle"

-----------------------------------------------------------------------------
(* SpecClassify: determineServiceType on every generated name and comment.   *)

InitClassify ==
    /\ serviceName \in ServiceNames
    /\ comment \in Comments
    /\ objectType = ""
    /\ cpc = "input"
    /\ DiffIdle /\ ParseIdle /\ FlowIdle /\ GenIdle /\ CfgIdle

\* determineServiceType(serviceName, comment)
Classify ==
    /\ cpc = "input"
    /\ objectType' = ClassifyService(serviceName, comment)
    /\ cpc' = "classified"
    /\ UNCHANGED <<serviceName, comment, diffVars, parseVars, flowVars, genVars, cfgVars>>

NextClassify == Classify

SpecClassify == InitClassify /\ [][NextClassify]_vars

-----------------------------------------------------------------------------
(* SpecDiff: Diff and Equal on every pair of generated objects, nil included.*)

InitDiff ==
    /\ o \in Objects \cup {NilObject}
    /\ other \in Objects \cup {NilObject}
    /\ diff = EmptyMap
    /\ equal = FALSE
    /\ dpc = "input"
    /\ ClassIdle /\ ParseIdle /\ FlowIdle /\ GenIdle /\ CfgIdle

\* o.Diff(other) and o.Equal(other)
Compare ==
    /\ dpc = "input"
    /\ diff' = Diff(o, other)
    /\ equal' = Equal(o, other)
    /\ dpc' = "compared"
    /\ UNCHANGED <<o, other, classVars, parseVars, flowVars, genVars, cfgVars>>

NextDiff == Compare

SpecDiff == InitDiff /\ [][NextDiff]_vars

-----------------------------------------------------------------------------
(* SpecParse: ParseMermaid, one scanned line per step, called twice on the   *)
(* same input.                                                               *)

\* how many lines a generated input has at most
MaxLines == 3

\* bufio.MaxScanTokenSize: the scanner's buffer holds at most that many bytes,
\* and a line that fills it without a line end ends the scan with ErrTooLong
MaxScanTokenSize == 65536

\* scanner.Err() after such a line, as ParseMermaid returns it instead of a Diagram
ErrTooLong == [err |-> "bufio.Scanner: token too long"]

RECURSIVE Doubled(_, _)
\* s repeated 2^n times
Doubled(s, n) == IF n = 0 THEN s ELSE Doubled(s \o s, n - 1)

\* a line of MaxScanTokenSize bytes that matches no form
LongLine == Doubled("x", 16)

LineTexts ==
    { LongLine,
      "Person(user, \"User\", \"System user\")",
      "System(app, \"Application\")",
      "System_Ext(user, \"External API\", \"Third-party service\")",
      "  SystemDb(App, \"Store\")",
      "System_Boundary(b1, \"Boundary\") {",
      "Rel(user, app, \"Uses\")",
      "BiRel(app, api, \"Syncs\")",
      "}",
      "title System context" }

InitParse ==
    /\ lines \in SeqUpTo(LineTexts, MaxLines)
    /\ lineNo = 0
    /\ p = newMermaidParser(NilObject)
    /\ parsed = <<>>
    /\ ppc = "scan"
    /\ ClassIdle /\ DiffIdle /\ FlowIdle /\ GenIdle /\ CfgIdle

\* one turn of `for scanner.Scan()`
ScanLine ==
    /\ ppc = "scan"
    /\ lineNo < Len(lines)
    /\ Len(lines[lineNo + 1]) < MaxScanTokenSize
    /\ p' = ParseLine(p, lines[lineNo + 1])
    /\ lineNo' = lineNo + 1
    /\ UNCHANGED <<lines, parsed, ppc, classVars, diffVars, flowVars, genVars, cfgVars>>

\* scanner.Scan() returns false on a line the buffer cannot hold, scanner.Err()
\* is not nil and ParseMermaid returns it
ScanTooLong ==
    /\ ppc = "scan"
    /\ lineNo < Len(lines)
    /\ Len(lines[lineNo + 1]) >= MaxScanTokenSize
    /\ parsed' = Append(parsed, ErrTooLong)
    /\ ppc' = "done"
    /\ UNCHANGED <<lines, lineNo, p, classVars, diffVars, flowVars, genVars, cfgVars>>

\* the scanner is exhausted: build the Diagram and return it
ReturnDiagram ==
    /\ ppc = "scan"
    /\ lineNo = Len(lines)
    /\ \E order \in Orders(p.objs) : parsed' = Append(parsed, BuildDiagram(p, order))
    /\ ppc' = "done"
    /\ UNCHANGED <<lines, lineNo, p, classVars, diffVars, flowVars, genVars, cfgVars>>

\* a second call of ParseMermaid on the same input
ParseAgain ==
    /\ ppc = "done"
    /\ Len(parsed) < 2
    /\ p' = newMermaidParser(p)
    /\ lineNo' = 0
    /\ ppc' = "scan"
    /\ UNCHANGED <<lines, parsed, classVars, diffVars, flowVars, genVars, cfgVars>>

NextParse == ScanLine \/ ScanTooLong \/ ReturnDiagram \/ ParseAgain

SpecParse == InitParse /\ [][NextParse]_vars

-----------------------------------------------------------------------------
(* The workflows: uploader.Upload and the sync CLI's run, against the remote *)
(* store.  One step is one HTTP call with its outcome, or the pre-flight     *)
(* that precedes the first call.  The store is the black box behind          *)
(* IcePanelClient.call: it answers "ok" (status < 300), "status" (status >=  *)
(* 300, a JSON error body), "undecodable" (a body json cannot decode) or     *)
(* "neterr" (Do returned an error).                                          *)

\* how many invocations follow one another on the same store
MaxRuns == 1
\* how many records the objects array of a generated file has at most
MaxObjects == 2

\* the resource kinds in the order WipeVersion takes them
WipeKindsObjectsFirst == <<"model/objects", "model/connections", "diagram-groups", "diagrams">>
WipeKinds == <<"diagram-groups", "diagrams", "model/objects", "model/connections">>

\* uploader.Object records of generated files
FileRecord(id, name, desc, typ, pkg) ==
    [ID |-> id, Name |-> name, Description |-> desc, Type |-> typ, Package |-> pkg]
FileRecords ==
    { FileRecord("boundary-shop", "shop", "Package: shop", "System_Boundary", "shop"),
      FileRecord("service-Orders", "Orders", "Keeps the orders database", "SystemDb", "shop") }

\* the api.Object Upload builds from a record of the file
ToAPIObject(r) ==
    Object(r.ID, r.Name, r.Description, r.Type, [k \in {"package"} |-> StringValue(r.Package)])

\* the Mermaid files the sync CLI may be pointed at
MermaidFiles ==
    ("context.mmd" :> << "Person(user, \"User\", \"System user\")",
                         "System(service-Orders, \"Orders\")",
                         "Rel(user, service-Orders, \"Uses\")" >>)
    @@ ("dangling.mmd" :> << "System(app, \"Application\")",
                             "BiRel(app, api, \"Syncs\")" >>)
    @@ ("empty.mmd" :> << >>)
MermaidPaths == {"context.mmd", "dangling.mmd", "empty.mmd", "missing.mmd", "notes.txt", ""}

\* filepath.Ext(path): the suffix from the last dot on ("" without a dot)
Ext(path) ==
    IF IndexOf(path, ".") = 0 THEN ""
    ELSE LET i == CHOOSE k \in 1..Len(path) :
                    SubSeq(path, k, k) = "." /\ \A j \in (k + 1)..Len(path) : SubSeq(path, j, j) # "."
         IN  SubSeq(path, i, Len(path))

\* OsFileReader.ReadFile(path) on paths that filepath.Clean leaves as they are
ReadFile(path) ==
    IF path = "" THEN "ErrEmptyPath"
    ELSE IF Contains(path, "..") THEN "ErrInvalidPath"
    ELSE IF Ext(path) # ".mmd" THEN "ErrInvalidPath"
    ELSE IF path \notin DOMAIN MermaidFiles THEN "ErrNotExist"
    ELSE "ok"

RECURSIVE ParseLines(_, _)
\* the scanner loop of ParseMermaid over a whole input
ParseLines(q, input) ==
    IF Len(input) = 0 THEN q ELSE ParseLines(ParseLine(q, Head(input)), Tail(input))

\* ---- the remote store
EmptyStore(l, v) ==
    [landscape |-> l, version |-> v, groups |-> {}, diagrams |-> {}, objects |-> {}, connections |-> {}]

\* the identifiers a listing of one kind returns
IdsOf(store, k) ==
    CASE k = "diagram-groups"    -> store.groups
      [] k = "diagrams"          -> store.diagrams
      [] k = "model/objects"     -> {x.Handle : x \in store.objects}
      [] k = "model/connections" -> {x.Handle : x \in store.connections}

\* the store once DELETE <kind>/<id> has been served
Deleted(store, k, id) ==
    CASE k = "diagram-groups"    -> [store EXCEPT !.groups = @ \ {id}]
      [] k = "diagrams"          -> [store EXCEPT !.diagrams = @ \ {id}]
      [] k = "model/objects"     -> [store EXCEPT !.objects = {x \in @ : x.Handle # id}]
      [] k = "model/connections" -> [store EXCEPT !.connections = {x \in @ : x.Handle # id}]

\* the store once POST model/objects has been served: the object is there under its handle
Created(store, obj) ==
    [store EXCEPT !.objects = {x \in @ : x.Handle # obj.Handle} \cup {obj}]

\* the store once POST diagrams has been served
Posted(store, d, id) ==
    [store EXCEPT !.diagrams = @ \cup {id},
                  !.objects = {x \in @ : x.Handle \notin {y.Handle : y \in Range(d.Objects)}}
                              \cup Range(d.Objects),
                  !.connections = @ \cup Range(d.Connections)]

\* listIDs asks for one page of `per=1000` identifiers
PerPage == 1000

\* the pages a listing may return: PerPage of the identifiers (all of them
\* when there are no more), in some order
Listings(S) ==
    LET n == IF Cardinality(S) <= PerPage THEN Cardinality(S) ELSE PerPage IN
    {s \in [1..n -> S] : \A i, j \in 1..n : i # j => s[i] # s[j]}

Call(method, path, id, body, outcome) ==
    [method |-> method, path |-> path, id |-> id, body |-> body, outcome |-> outcome]

\* ---- the invocation

\* where Upload and run go once the wipe is over (or was not asked for):
\* run posts the diagram, Upload walks the objects array unless it is a dry run
AfterWipe(t, opts, objs) ==
    IF t = "sync" THEN "post"
    ELSE IF opts.dryRun \/ Len(objs) = 0 THEN "done"
    ELSE "create"

\* a slip of handleWipeIfNeeded: the wipe is not held back by the dry-run flag
AfterValidateWipingInDryRun(opts, objs) ==
    IF opts.wipe THEN "wipe_list" ELSE AfterWipe("upload", opts, objs)

\* where Upload goes once the scope is validated: handleWipeIfNeeded
AfterValidate(opts, objs) ==
    IF opts.wipe /\ ~opts.dryRun THEN "wipe_list" ELSE AfterWipe("upload", opts, objs)

\* a slip of ValidateLandscapeVersion: the landscape's status is not looked at
AfterLandscapeUnchecked(outcome) ==
    IF outcome = "neterr" THEN "failed" ELSE "validate_version"

\* where ValidateLandscapeVersion goes after the landscape GET
AfterLandscape(outcome) ==
    IF outcome = "ok" THEN "validate_version" ELSE "failed"

\* the outcomes the store can give a call inside the scope: "ok" needs the scope
ScopeOutcomes(store, failures) ==
    (IF store.landscape /\ store.version THEN {"ok"} ELSE {}) \cup failures

Locals == <<tool, err, options, objectsFile, diagram, kind, ids, next>>

InitialStores ==
    {EmptyStore(FALSE, FALSE), EmptyStore(TRUE, FALSE)}
    \cup {[landscape |-> TRUE, version |-> TRUE, groups |-> g, diagrams |-> d,
           objects |-> ob, connections |-> c] :
            g \in SUBSET {"g1"}, d \in SUBSET {"d1"},
            ob \in {{},
                    {Object("service-Orders", "Orders", "Keeps the orders database", "SystemDb",
                            [k \in {"package"} |-> StringValue("shop")])},
                    {Object("service-Orders", "Orders", "", "System",
                            [k \in {"package"} |-> StringValue("shop")])},
                    {Object("user", "User", "System user", "actor", EmptyMap)}},
            c \in SUBSET {Connection("c1", "user", "service-Orders", "Uses")}}

Init ==
    /\ ClassIdle /\ DiffIdle /\ ParseIdle /\ GenIdle /\ CfgIdle
    /\ tool = "idle"
    /\ options = [wipe |-> FALSE, dryRun |-> FALSE]
    /\ objectsFile = <<>>
    /\ diagram = NilObject
    /\ remote \in InitialStores
    /\ calls = <<>>
    /\ pc = "start"
    /\ err = ""
    /\ kind = 0 /\ ids = <<>> /\ next = 0
    /\ runs = 0

\* the errors the workflows return before their first remote call
ErrOpenFile       == "failed to open objects file"
ErrParseFile      == "failed to parse objects file"
ErrMissingIDs     == "missing landscape ID or version ID in configuration"
ErrRequiredFields == "Required fields: -mmd, -landscape, -version"
ErrTokenRequired  == "API token is required"
ErrReadMermaid    == "could not read file"

\* Upload's checks of its inputs, in their order: the error of the first one
\* that fails, "" when all pass
UploadError(file, LandscapeID, VersionID) ==
    IF file = "unreadable" THEN ErrOpenFile
    ELSE IF file = "malformed" THEN ErrParseFile
    ELSE IF LandscapeID = "" \/ VersionID = "" THEN ErrMissingIDs
    ELSE ""

\* run's checks of its inputs, in their order
SyncError(mmdFile, landscapeID, versionID, token, DefaultToken) ==
    IF mmdFile = "" \/ landscapeID = "" \/ versionID = "" THEN ErrRequiredFields
    ELSE IF token = "" /\ DefaultToken = "" THEN ErrTokenRequired
    ELSE IF ReadFile(mmdFile) # "ok" THEN ErrReadMermaid
    ELSE ""

\* a slip of Upload: the scope is looked up remotely before the ids are
\* checked for being empty
CallsAtStartScopeFirst(file, LandscapeID, VersionID) ==
    IF file = "ok" /\ (LandscapeID = "" \/ VersionID = "")
    THEN <<Call("GET", "landscape", "", NilObject, "status")>>
    ELSE <<>>

\* the calls Upload has issued when its checks of the inputs are over: none,
\* the client is built after the last check
CallsAtStart(file, LandscapeID, VersionID) == <<>>

\* Upload up to its first remote call: open, read and parse the objects file,
\* apply the overrides, reject an empty landscape or version id
UploadStart ==
    /\ pc = "start" /\ runs < MaxRuns
    /\ \E file \in {"ok", "unreadable", "malformed"},
          cfgLandscape \in {"", "L1"}, cfgVersion \in {"", "V1"},
          ForceLandscape \in {"", "L2"}, ForceVersion \in {"", "V2"},
          wipe \in BOOLEAN, DryRun \in BOOLEAN,
          objs \in SeqUpTo(FileRecords, MaxObjects) :
        LET LandscapeID == IF ForceLandscape # "" THEN ForceLandscape ELSE cfgLandscape
            VersionID   == IF ForceVersion # "" THEN ForceVersion ELSE cfgVersion
        IN  /\ tool' = "upload"
            /\ err' = UploadError(file, LandscapeID, VersionID)
            /\ calls' = CallsAtStart(file, LandscapeID, VersionID)
            /\ IF file # "ok"
               THEN /\ pc' = "failed"
                    /\ UNCHANGED <<options, objectsFile>>
               ELSE /\ options' = [wipe |-> wipe, dryRun |-> DryRun]
                    /\ objectsFile' = objs
                    /\ pc' = IF LandscapeID = "" \/ VersionID = "" THEN "failed"
                             ELSE "validate_landscape"
    /\ runs' = runs + 1
    /\ UNCHANGED <<diagram, remote, kind, ids, next, classVars, diffVars, parseVars, genVars, cfgVars>>

\* run up to its first remote call: the required flags, the token, ParseMermaid
SyncStart ==
    /\ pc = "start" /\ runs < MaxRuns
    /\ \E mmdFile \in MermaidPaths, landscapeID \in {"", "L1"}, versionID \in {"", "V1"},
          token \in {"", "t"}, DefaultToken \in {"", "t"}, wipe \in BOOLEAN :
        /\ tool' = "sync"
        /\ err' = SyncError(mmdFile, landscapeID, versionID, token, DefaultToken)
        /\ IF \/ mmdFile = "" \/ landscapeID = "" \/ versionID = ""
              \/ (token = "" /\ DefaultToken = "")
              \/ ReadFile(mmdFile) # "ok"
           THEN /\ pc' = "failed"
                /\ UNCHANGED <<options, diagram, kind>>
           ELSE LET q == ParseLines(newMermaidParser(NilObject), MermaidFiles[mmdFile]) IN
                /\ \E order \in Orders(q.objs) :
                      diagram' = [BuildDiagram(q, order) EXCEPT !.Name = "Imported diagram"]
                /\ options' = [wipe |-> wipe, dryRun |-> FALSE]
                /\ pc' = IF wipe THEN "wipe_list" ELSE "post"
                /\ kind' = IF wipe THEN 1 ELSE 0
    /\ runs' = runs + 1
    /\ UNCHANGED <<objectsFile, remote, calls, ids, next, classVars, diffVars, parseVars, genVars, cfgVars>>

\* ValidateLandscapeVersion: GET /landscapes/<lc>
GetLandscape ==
    /\ pc = "validate_landscape"
    /\ \E outcome \in (IF remote.landscape THEN {"ok"} ELSE {}) \cup {"status", "neterr"} :
        /\ calls' = Append(calls, Call("GET", "landscape", "", NilObject, outcome))
        /\ pc' = AfterLandscape(outcome)
    /\ UNCHANGED <<Locals, remote, runs, classVars, diffVars, parseVars, genVars, cfgVars>>

\* ValidateLandscapeVersion: GET /landscapes/<lc>/versions/<ver>, and Upload's
\* handleWipeIfNeeded once it has returned nil
GetVersion ==
    /\ pc = "validate_version"
    /\ \E outcome \in ScopeOutcomes(remote, {"status", "neterr"}) :
        /\ calls' = Append(calls, Call("GET", "version", "", NilObject, outcome))
        /\ pc' = IF outcome = "ok" THEN AfterValidate(options, objectsFile) ELSE "failed"
        /\ kind' = IF outcome = "ok" /\ AfterValidate(options, objectsFile) = "wipe_list"
                   THEN 1 ELSE kind
        /\ next' = IF outcome = "ok" /\ AfterValidate(options, objectsFile) = "create"
                   THEN 1 ELSE next
    /\ UNCHANGED <<tool, err, options, objectsFile, diagram, ids, remote, runs,
                   classVars, diffVars, parseVars, genVars, cfgVars>>

\* WipeVersion between two calls: delAll has `rest` left to delete of kind
\* number k; with nothing left it lists the next kind or returns nil
WipeGoesOn(k, rest) ==
    /\ ids' = rest
    /\ IF rest # <<>> THEN pc' = "wipe_del" /\ kind' = k /\ UNCHANGED next
       ELSE IF k < Len(WipeKinds) THEN pc' = "wipe_list" /\ kind' = k + 1 /\ UNCHANGED next
       ELSE /\ pc' = AfterWipe(tool, options, objectsFile)
            /\ kind' = k
            /\ next' = IF AfterWipe(tool, options, objectsFile) = "create" THEN 1 ELSE next

\* listIDs: GET <kind>?per=1000.  The status is not looked at: whatever body
\* decodes is taken, and an error body decodes to no identifiers
WipeList ==
    /\ pc = "wipe_list"
    /\ \E outcome \in ScopeOutcomes(remote, {"status", "undecodable", "neterr"}) :
        /\ calls' = Append(calls, Call("GET", WipeKinds[kind], "", NilObject, outcome))
        /\ CASE outcome = "ok" ->
                  \E page \in Listings(IdsOf(remote, WipeKinds[kind])) : WipeGoesOn(kind, page)
             [] outcome = "status" -> WipeGoesOn(kind, <<>>)
             [] OTHER -> pc' = "failed" /\ UNCHANGED <<kind, ids, next>>
    /\ UNCHANGED <<tool, err, options, objectsFile, diagram, remote, runs,
                   classVars, diffVars, parseVars, genVars, cfgVars>>

\* a slip of delAll: a failed DELETE is logged and the loop goes on
WipeDeleteIgnoringFailure ==
    /\ pc = "wipe_del"
    /\ \E outcome \in ScopeOutcomes(remote, {"status", "neterr"}) :
        /\ calls' = Append(calls, Call("DELETE", WipeKinds[kind], Head(ids), NilObject, outcome))
        /\ remote' = IF outcome = "ok" THEN Deleted(remote, WipeKinds[kind], Head(ids)) ELSE remote
        /\ WipeGoesOn(kind, Tail(ids))
    /\ UNCHANGED <<tool, err, options, objectsFile, diagram, runs, classVars, diffVars, parseVars, genVars, cfgVars>>

\* delAll: DELETE <kind>/<id> for the next listed identifier
WipeDelete ==
    /\ pc = "wipe_del"
    /\ \E outcome \in ScopeOutcomes(remote, {"status", "neterr"}) :
        /\ calls' = Append(calls, Call("DELETE", WipeKinds[kind], Head(ids), NilObject, outcome))
        /\ IF outcome = "ok"
           THEN /\ remote' = Deleted(remote, WipeKinds[kind], Head(ids))
                /\ WipeGoesOn(kind, Tail(ids))
           ELSE /\ pc' = "failed"
                /\ UNCHANGED <<remote, kind, ids, next>>
    /\ UNCHANGED <<tool, err, options, objectsFile, diagram, runs, classVars, diffVars, parseVars, genVars, cfgVars>>

\* a slip of Upload's loop: a failed CreateObject is logged and the loop goes on
CreateObjectSkippingFailure ==
    /\ pc = "create"
    /\ \E outcome \in ScopeOutcomes(remote, {"status", "neterr"}) :
        LET icepanelObj == ToAPIObject(objectsFile[next]) IN
        /\ calls' = Append(calls, Call("POST", "model/objects", "", icepanelObj, outcome))
        /\ remote' = IF outcome = "ok" THEN Created(remote, icepanelObj) ELSE remote
        /\ next' = next + 1
        /\ pc' = IF next = Len(objectsFile) THEN "done" ELSE "create"
    /\ UNCHANGED <<tool, err, options, objectsFile, diagram, kind, ids, runs,
                   classVars, diffVars, parseVars, genVars, cfgVars>>

\* one turn of Upload's loop over the objects array: CreateObject
CreateObject ==
    /\ pc = "create"
    /\ \E outcome \in ScopeOutcomes(remote, {"status", "neterr"}) :
        LET icepanelObj == ToAPIObject(objectsFile[next]) IN
        /\ calls' = Append(calls, Call("POST", "model/objects", "", icepanelObj, outcome))
        /\ IF outcome = "ok"
           THEN /\ remote' = Created(remote, icepanelObj)
                /\ next' = next + 1
                /\ pc' = IF next = Len(objectsFile) THEN "done" ELSE "create"
           ELSE /\ pc' = "failed"
                /\ UNCHANGED <<remote, next>>
    /\ UNCHANGED <<tool, err, options, objectsFile, diagram, kind, ids, runs,
                   classVars, diffVars, parseVars, genVars, cfgVars>>

\* PostDiagram: POST diagrams with the whole Diagram; the response's id is decoded
PostDiagram ==
    /\ pc = "post"
    /\ \E outcome \in ScopeOutcomes(remote, {"status", "neterr"})
                      \cup (IF remote.landscape /\ remote.version THEN {"undecodable"} ELSE {}) :
        /\ calls' = Append(calls, Call("POST", "diagrams", "", diagram, outcome))
        /\ pc' = IF outcome = "ok" THEN "done" ELSE "failed"
        /\ remote' = IF outcome \in {"ok", "undecodable"}
                     THEN Posted(remote, diagram, "diagram-" \o Decimal(runs))
                     ELSE remote
    /\ UNCHANGED <<Locals, runs, classVars, diffVars, parseVars, genVars, cfgVars>>

\* the process exits; the store stays as it is for the next invocation
Exit ==
    /\ pc \in {"done", "failed"}
    /\ tool' = "idle"
    /\ options' = [wipe |-> FALSE, dryRun |-> FALSE]
    /\ objectsFile' = <<>>
    /\ diagram' = NilObject
    /\ calls' = <<>>
    /\ pc' = "start"
    /\ err' = ""
    /\ kind' = 0 /\ ids' = <<>> /\ next' = 0
    /\ UNCHANGED <<remote, runs, classVars, diffVars, parseVars, genVars, cfgVars>>

Next ==
    \/ UploadStart \/ SyncStart \/ GetLandscape \/ GetVersion
    \/ WipeList \/ WipeDelete \/ CreateObject \/ PostDiagram \/ Exit

Spec == Init /\ [][Next]_vars

-----------------------------------------------------------------------------
(* json.Unmarshal(data, &objectsFile): the parsed document laid over         *)
(* uploader.ObjectsFile.  A key fills the field whose json name it equals,   *)
(* letter case aside; of several such keys the last one stays; keys of no    *)
(* field are dropped; a value of the wrong JSON type is an error.            *)

Absent == [t |-> "absent"]
TypeError == [ok |-> FALSE]
Decoded(val) == [ok |-> TRUE, val |-> val]

\* the value the members leave in the field called name
Lookup(members, name) ==
    LET hits == {i \in DOMAIN members : ToLower(members[i].k) = ToLower(name)} IN
    IF hits = {} THEN Absent
    ELSE members[CHOOSE i \in hits : \A j \in hits : j <= i].v

DecodeString(v) ==
    IF v.t \in {"absent", "null"} THEN Decoded("")
    ELSE IF v.t = "string" THEN Decoded(v.s) ELSE TypeError

DecodeBool(v) ==
    IF v.t \in {"absent", "null"} THEN Decoded(FALSE)
    ELSE IF v.t = "bool" THEN Decoded(v.b) ELSE TypeError

\* ObjectsFile.Config
DecodeConfig(v) ==
    IF v.t \in {"absent", "null"} THEN Decoded(Options("", "", FALSE))
    ELSE IF v.t # "object" THEN TypeError
    ELSE LET l == DecodeString(Lookup(v.members, "landscapeId"))
             r == DecodeString(Lookup(v.members, "versionId"))
             w == DecodeBool(Lookup(v.members, "wipe"))
         IN  IF l.ok /\ r.ok /\ w.ok THEN Decoded(Options(l.val, r.val, w.val)) ELSE TypeError

\* one uploader.Object
DecodeRecord(v) ==
    IF v.t = "null" THEN Decoded(FileRecord("", "", "", "", ""))
    ELSE IF v.t # "object" THEN TypeError
    ELSE LET f == [name \in {"id", "name", "description", "type", "package"} |->
                      DecodeString(Lookup(v.members, name))]
         IN  IF \A name \in DOMAIN f : f[name].ok
             THEN Decoded(FileRecord(f["id"].val, f["name"].val, f["description"].val,
                                     f["type"].val, f["package"].val))
             ELSE TypeError

\* ObjectsFile.Objects
DecodeObjects(v) ==
    IF v.t \in {"absent", "null"} THEN Decoded(<<>>)
    ELSE IF v.t # "array" THEN TypeError
    ELSE IF \A i \in DOMAIN v.elems : DecodeRecord(v.elems[i]).ok
         THEN Decoded([i \in DOMAIN v.elems |-> DecodeRecord(v.elems[i]).val])
         ELSE TypeError

\* what Upload returns for a document json.Unmarshal rejects
UnmarshalError == [err |-> "failed to parse objects file"]

ObjectsFile(config, objs) == [Config |-> config, Objects |-> objs]

\* json.Unmarshal(data, &objectsFile)
Unmarshal(data) ==
    LET r == ParseValue(data, 1) IN
    IF ~r.ok \/ SkipWs(data, r.pos) <= Len(data) THEN UnmarshalError
    ELSE IF r.val.t = "null" THEN ObjectsFile(Options("", "", FALSE), <<>>)
    ELSE IF r.val.t # "object" THEN UnmarshalError
    ELSE LET c == DecodeConfig(Lookup(r.val.members, "config"))
             a == DecodeObjects(Lookup(r.val.members, "objects"))
         IN  IF c.ok /\ a.ok THEN ObjectsFile(c.val, a.val) ELSE UnmarshalError

-----------------------------------------------------------------------------
(* SpecGenerate: one Generate run over a request, and Upload's reading of    *)
(* the file it wrote.                                                        *)

\* how many files a generated request has at most, and services a file
MaxFiles == 2
MaxServices == 1

Service(name, leading) == [Name |-> name, Leading |-> leading]
ServiceDecls ==
    { Service("Orders", ""),
      Service("PaymentsDB", " Keeps the payments") }

ServiceLists ==
    {l \in SeqUpTo(ServiceDecls, MaxServices) :
        \A i, j \in DOMAIN l : i # j => l[i].Name # l[j].Name}

ProtoFile(path, pkg, services, generate) ==
    [Path |-> path, Package |-> pkg, Services |-> services, Generate |-> generate]

\* the files of a request: two to generate, and a dependency protoc hands
\* over with Generate false
ProtoFiles ==
    {ProtoFile(path, pkg, l, TRUE) :
        path \in {"shop/orders.proto", "tdd/protos/draft.proto"}, pkg \in {"", "shop"},
        l \in ServiceLists}
    \cup {ProtoFile("vendor/dep.proto", "dep", <<Service("Provider", "")>>, FALSE)}

Parameters ==
    { "", "wipe=true", "landscape=L1,version=V1", "landscape=L1,version=V1,wipe=true",
      "landscape=L1, wipe=yes", "version=V1,wipe=false",
      "speculative_protos_path_prefix=tdd/protos/,version=V1,wipe=1",
      "speculative_protos_path_prefix=tdd/protos/" }

Requests ==
    {[Parameter |-> prm, Files |-> fs] :
        prm \in Parameters,
        fs \in {l \in SeqUpTo(ProtoFiles, MaxFiles) :
                    \A i, j \in DOMAIN l : i # j => l[i].Path # l[j].Path}}

\* no icepanel_objects.json in the response
NoFile == [nofile |-> TRUE]

\* the CodeGeneratorResponse_File Generate appends
ResponseFile(content) == [Name |-> "icepanel_objects.json", Content |-> content]

InitGenerate ==
    /\ request \in Requests
    /\ speculativePathPrefix = "" /\ genOptions = NilObject
    /\ fileNo = 0 /\ extracted = <<>> /\ output = NilObject /\ loaded = NilObject
    /\ gpc = "start"
    /\ ClassIdle /\ DiffIdle /\ ParseIdle /\ FlowIdle /\ CfgIdle

\* Generate up to its loop: the speculative prefix and parsePluginParameters
GenerateStart ==
    /\ gpc = "start"
    /\ speculativePathPrefix' = SpeculativePrefixOf(request.Parameter)
    /\ genOptions' = parsePluginParameters(request.Parameter)
    /\ gpc' = "files"
    /\ UNCHANGED <<request, fileNo, extracted, output, loaded,
                   classVars, diffVars, parseVars, flowVars, cfgVars>>

\* one turn of `for _, file := range plugin.Files`
ProcessFile ==
    /\ gpc = "files"
    /\ fileNo < Len(request.Files)
    /\ LET file == request.Files[fileNo + 1] IN
          extracted' = IF file.Generate
                       THEN extracted \o processProtoFile(file, speculativePathPrefix)
                       ELSE extracted
    /\ fileNo' = fileNo + 1
    /\ UNCHANGED <<request, speculativePathPrefix, genOptions, output, loaded, gpc,
                   classVars, diffVars, parseVars, flowVars, cfgVars>>

\* Generate after its loop: the response file, when there are objects
WriteOutput ==
    /\ gpc = "files"
    /\ fileNo = Len(request.Files)
    /\ output' = IF Len(extracted) > 0
                 THEN ResponseFile(generateIcePanelOutput(extracted, genOptions))
                 ELSE NoFile
    /\ gpc' = "written"
    /\ UNCHANGED <<request, speculativePathPrefix, genOptions, fileNo, extracted, loaded,
                   classVars, diffVars, parseVars, flowVars, cfgVars>>

\* Upload: json.Unmarshal of the file Generate wrote
LoadFile ==
    /\ gpc = "written"
    /\ output # NoFile
    /\ loaded' = Unmarshal(output.Content)
    /\ gpc' = "loaded"
    /\ UNCHANGED <<request, speculativePathPrefix, genOptions, fileNo, extracted, output,
                   classVars, diffVars, parseVars, flowVars, cfgVars>>

NextGenerate == GenerateStart \/ ProcessFile \/ WriteOutput \/ LoadFile

SpecGenerate == InitGenerate /\ [][NextGenerate]_vars

-----------------------------------------------------------------------------
(* Properties of the workflows (Spec).                                       *)

IsDelete(c) == c.method = "DELETE"
IsCreate(c) == c.method = "POST" /\ c.path \in {"model/objects", "diagrams"}
IsValidation(c) == c.method = "GET" /\ c.path \in {"landscape", "version"}

\* the place of a call in the order the wipe promises: the four kinds of
\* DELETE, then the creations; 0 for the calls the order says nothing about
Rank(c) ==
    IF IsDelete(c)
    THEN CASE c.path = "diagram-groups"    -> 1
           [] c.path = "diagrams"          -> 2
           [] c.path = "model/objects"     -> 3
           [] c.path = "model/connections" -> 4
    ELSE IF IsCreate(c) THEN 5 ELSE 0

\* C1: within one invocation every DELETE of diagram-groups comes before any
\* DELETE of diagrams, those before any DELETE of model/objects, those before
\* any DELETE of model/connections, and every DELETE before the first creation
\* call; an invocation without the wipe option issues no DELETE at all.
C1_WipeOrder ==
    /\ \A i, j \in DOMAIN calls :
          (i < j /\ Rank(calls[i]) > 0 /\ Rank(calls[j]) > 0) => Rank(calls[i]) <= Rank(calls[j])
    /\ ~options.wipe => \A i \in DOMAIN calls : ~IsDelete(calls[i])

\* C1 witness: an Upload with wipe has deleted a group, a diagram, an object
\* and a connection and has then created an object
C1_Witness ==
    /\ tool = "upload" /\ options.wipe /\ pc = "done"
    /\ \E i, j, k, l, m \in DOMAIN calls :
          /\ Rank(calls[i]) = 1 /\ Rank(calls[j]) = 2 /\ Rank(calls[k]) = 3
          /\ Rank(calls[l]) = 4 /\ Rank(calls[m]) = 5
          /\ calls[m].outcome = "ok"

\* C2: Upload's first call is the landscape GET; the version GET is issued
\* only as the second call and only after the landscape GET succeeded; a
\* failed check (transport error or status >= 300) is the invocation's last
\* call and makes it fail; any list, create or delete call comes after exactly
\* two successful validation calls.
C2_FailFast ==
    tool = "upload" =>
        /\ \A i \in DOMAIN calls :
              /\ (i = 1) = (calls[i].method = "GET" /\ calls[i].path = "landscape")
              /\ (calls[i].method = "GET" /\ calls[i].path = "version")
                    => (i = 2 /\ calls[1].outcome = "ok")
              /\ (IsValidation(calls[i]) /\ calls[i].outcome # "ok")
                    => (i = Len(calls) /\ pc = "failed")
              /\ ~IsValidation(calls[i])
                    => /\ i > 2
                       /\ calls[2].method = "GET" /\ calls[2].path = "version"
                       /\ calls[1].outcome = "ok" /\ calls[2].outcome = "ok"
        /\ pc \in {"validate_version"} => Len(calls) = 1
        /\ pc \in {"wipe_list", "wipe_del", "create", "done"} => Len(calls) >= 2

\* C2 witness: the landscape exists and the version does not; Upload has
\* stopped after the two GETs
C2_Witness ==
    /\ tool = "upload" /\ pc = "failed" /\ Len(calls) = 2
    /\ calls[1].outcome = "ok" /\ calls[2].path = "version" /\ calls[2].outcome = "status"
    /\ options.wipe /\ ~options.dryRun /\ Len(objectsFile) > 0

\* the call a step issues, when it issues one
Issues(c) == Len(calls') = Len(calls) + 1 /\ calls'[Len(calls')] = c

\* C3 (step): a call that creates connections is issued only when every
\* Edge's source and target exists in the remote store
C3_ConnectStep ==
    \A c \in {calls'[i] : i \in DOMAIN calls'} :
        (tool = "sync" /\ Issues(c) /\ c.method = "POST" /\ c.path = "diagrams"
            /\ Len(c.body.Connections) > 0)
        => \A e \in Range(c.body.Connections) :
              {e.From, e.To} \subseteq {x.Handle : x \in remote.objects}

\* C3: in the connection workflow every Edge's endpoints are checked against
\* the remote store before any connection is created; one unresolved endpoint
\* aborts the batch with no connection-creating call.
C3_EndpointsValidated == [][C3_ConnectStep]_vars

\* C4 (step): no object write is issued for a Node whose remote counterpart
\* (same handle) is logically equal to it
C4_WriteStep ==
    \A c \in {calls'[i] : i \in DOMAIN calls'} :
        (tool = "upload" /\ Issues(c) /\ c.method \in {"POST", "PUT"} /\ c.path = "model/objects")
        => ~\E x \in remote.objects : x.Handle = c.body.Handle /\ Equal(c.body, x)

\* C4: Upload writes only Nodes that are absent remotely or differ from their
\* remote counterpart; a second Upload of an unchanged file, without wipe,
\* issues no object write.
C4_SkipsNoOpWrites == [][C4_WriteStep]_vars

-----------------------------------------------------------------------------
(* Properties of the parser (SpecParse).                                     *)

\* the parser a line produces when it is the whole input
Alone(text) == ParseLine(newMermaidParser(NilObject), text)

\* the lines scanned so far that declare the raw identifier id
DeclarationsOf(id) == {i \in 1..lineNo : id \in DOMAIN Alone(lines[i]).objs}

\* C5: an identifier declared more than once (by any mix of Person, System,
\* System_Ext, SystemDb and System_Boundary lines) has exactly one Node, and
\* that Node is the one its first declaration alone produces: later
\* declarations change nothing.
C5_FirstDeclarationWins ==
    ppc \in {"scan", "done"} =>
        /\ \A i \in 1..lineNo : DOMAIN Alone(lines[i]).objs \subseteq DOMAIN p.objs
        /\ \A id \in DOMAIN p.objs :
            /\ DeclarationsOf(id) # {}
            /\ LET first == CHOOSE i \in DeclarationsOf(id) : \A j \in DeclarationsOf(id) : i <= j
               IN  p.objs[id] = Alone(lines[first]).objs[id]

\* what survives of C5 in the code: one Node per identifier, whose handle,
\* name, description and type are the first declaration's
C5_FirstDeclarationScalars ==
    ppc \in {"scan", "done"} =>
        \A id \in DOMAIN p.objs :
            LET first == CHOOSE i \in DeclarationsOf(id) : \A j \in DeclarationsOf(id) : i <= j
                x == Alone(lines[first]).objs[id]
            IN  /\ p.objs[id].Name = x.Name /\ p.objs[id].Desc = x.Desc
                /\ p.objs[id].Type = x.Type /\ p.objs[id].Handle = x.Handle

\* the line the scanner is about to take is a relation line: it reaches reRel
\* and matches it
IsRelLine(text) ==
    LET line == TrimSpace(text) IN
    /\ line # "" /\ ~HasPrefix(line, "//")
    /\ ~MatchPerson(line).ok /\ ~MatchSystem(line).ok /\ ~MatchBound(line).ok
    /\ MatchRel(line).ok

\* C6 (step): a Rel(a, b, label) line appends exactly one Edge a -> b, a
\* BiRel(a, b, label) line appends exactly two, a -> b then b -> a, both with
\* that label and with two handles that differ from each other and from every
\* earlier one; no other line touches the Edge list.
C6_RelStep ==
    (ppc = "scan" /\ lineNo' = lineNo + 1) =>
        LET text == lines[lineNo + 1]
            m == MatchRel(TrimSpace(text))
            added == SubSeq(p'.conns, Len(p.conns) + 1, Len(p'.conns))
            old == {p.conns[i].Handle : i \in DOMAIN p.conns}
        IN  /\ SubSeq(p'.conns, 1, Len(p.conns)) = p.conns
            /\ IF ~IsRelLine(text) THEN added = <<>>
               ELSE /\ Len(added) = (IF m.bidi THEN 2 ELSE 1)
                    /\ added[1].From = slug(m.from) /\ added[1].To = slug(m.to)
                    /\ added[1].Label = m.label /\ added[1].Handle \notin old
                    /\ m.bidi =>
                        /\ added[2].From = slug(m.to) /\ added[2].To = slug(m.from)
                        /\ added[2].Label = m.label /\ added[2].Handle \notin old
                        /\ added[2].Handle # added[1].Handle

\* C6: a BiRel line adds two Edges (a -> b and b -> a, same label, own
\* handles), a Rel line one; the Edge list grows in line order and its handles
\* are pairwise distinct throughout the parse.
C6_BiRelTwoEdges ==
    /\ [][C6_RelStep]_vars
    /\ [](\A i, j \in DOMAIN p.conns : i # j => p.conns[i].Handle # p.conns[j].Handle)

\* C6 witness: a Rel line and then a BiRel line have been scanned
C6_Witness ==
    /\ ppc = "scan" /\ lineNo = 2 /\ Len(p.conns) = 3
    /\ lines[2] = "BiRel(app, api, \"Syncs\")"
    /\ p.conns[2] = Connection("h0002", "app", "api", "Syncs")
    /\ p.conns[3] = Connection("h0003", "api", "app", "Syncs")

\* C7: two calls of ParseMermaid on the same text return Graphs with equal
\* Node sets and equal Edge sets.
C7_Deterministic ==
    Len(parsed) = 2 =>
        IF parsed[1] = ErrTooLong \/ parsed[2] = ErrTooLong THEN parsed[1] = parsed[2]
        ELSE /\ Range(parsed[1].Objects) = Range(parsed[2].Objects)
             /\ Range(parsed[1].Connections) = Range(parsed[2].Connections)

\* C7 witness: both calls have returned, with Nodes and Edges, the Nodes in
\* two different orders
C7_Witness ==
    /\ Len(parsed) = 2
    /\ parsed[1] # ErrTooLong /\ parsed[2] # ErrTooLong
    /\ parsed[1].Objects # parsed[2].Objects
    /\ Len(parsed[1].Connections) >= 1

-----------------------------------------------------------------------------
(* Properties of the classifier (SpecClassify).                              *)

HasPersistenceTerm(c) ==
    \E t \in {"database", "persistence", "storage", "repository"} : Contains(ToLower(c), t)
HasExternalTerm(c) ==
    \E t \in {"external", "third-party", "integration", "external service"} :
        Contains(ToLower(c), t)
HasDatabasePattern(n) ==
    \E t \in {"Database", "DB", "Repository", "Storage", "Persistence"} : Contains(n, t)
HasExternalPattern(n) ==
    \E t \in {"External", "Ext", "ThirdParty", "Partner", "Provider"} : Contains(n, t)

\* C8 as stated: PaymentsDatabaseService is SystemDb with an empty comment and
\* also with a comment that contains "external" and no persistence term.
C8_PersistenceWinsOverExternal ==
    (/\ cpc = "classified"
     /\ serviceName = "PaymentsDatabaseService"
     /\ \/ comment = ""
        \/ Contains(ToLower(comment), "external") /\ ~HasPersistenceTerm(comment))
    => objectType = C4SystemDb

\* C8 amended: PaymentsDatabaseService is SystemDb with an empty comment, and
\* System_Ext with a comment that contains "external" and no persistence term:
\* where name and comment disagree, the comment wins.
C8_CommentWinsOverName ==
    (cpc = "classified" /\ serviceName = "PaymentsDatabaseService") =>
        /\ comment = "" => objectType = C4SystemDb
        /\ (Contains(ToLower(comment), "external") /\ ~HasPersistenceTerm(comment))
              => objectType = C4SystemExt

\* C8 witness: the disagreeing pair has been classified
C8_Witness ==
    /\ cpc = "classified"
    /\ serviceName = "PaymentsDatabaseService"
    /\ comment = "An External system. "
    /\ objectType = C4SystemExt

\* C9: the result follows the precedence comment-persistence, comment-external,
\* name-database, name-external, default System, and is one of the three types.
C9_Precedence ==
    cpc = "classified" =>
        /\ objectType \in {C4System, C4SystemExt, C4SystemDb}
        /\ objectType =
              IF HasPersistenceTerm(comment) THEN "SystemDb"
              ELSE IF HasExternalTerm(comment) THEN "System_Ext"
              ELSE IF HasDatabasePattern(serviceName) THEN "SystemDb"
              ELSE IF HasExternalPattern(serviceName) THEN "System_Ext"
              ELSE "System"

\* C9 witness: a comment with both kinds of term on a name with an external
\* pattern has been classified SystemDb
C9_Witness ==
    /\ cpc = "classified"
    /\ HasPersistenceTerm(comment) /\ HasExternalTerm(comment)
    /\ HasExternalPattern(serviceName) /\ ~HasDatabasePattern(serviceName)
    /\ objectType = C4SystemDb

-----------------------------------------------------------------------------
(* Properties of the Equal/Diff engine (SpecDiff).                           *)

\* C10: Diff(x, x) is empty for every Node x; with exactly one side absent,
\* Diff holds one entry, "nil", with the two sides, and nothing per field.
C10_DiffSelfAndAbsent ==
    dpc = "compared" =>
        /\ (o # NilObject /\ other = o) => DOMAIN diff = {}
        /\ ((o = NilObject) # (other = NilObject)) =>
              /\ DOMAIN diff = {"nil"}
              /\ diff["nil"] = <<o, other>>

\* C10 witness: a nil receiver has been compared with a Node that has a property
C10_Witness ==
    /\ dpc = "compared"
    /\ o = NilObject /\ other # NilObject /\ DOMAIN other.Props # {}
    /\ "nil" \in DOMAIN diff

\* two property values are the same value: the same number, or the same
\* string, boolean or nil
SameValue(a, b) ==
    IF a.t \in {"int", "float64"} /\ b.t \in {"int", "float64"} THEN a.n = b.n ELSE a = b

\* the side of a Diff entry for a property: the value, or nil where the key is missing
SideValue(x, k) == IF k \in DOMAIN x.Props THEN x.Props[k] ELSE NilValue

\* the property keys on which two present objects differ: on one side only,
\* or on both with unequal values
DifferingProps(a, b) ==
    {k \in DOMAIN a.Props \cup DOMAIN b.Props :
        \/ k \notin DOMAIN a.Props \/ k \notin DOMAIN b.Props
        \/ ~SameValue(a.Props[k], b.Props[k])}

\* C11: for two present objects, Diff has an entry Name, Desc or Type exactly
\* when that field differs, holding the first object's value then the
\* second's; an entry Props.<k> exactly for each key on one side only or on
\* both with unequal values, the missing side nil; and nothing else.  Two
\* objects that differ in one property value only give exactly one entry.
C11_DiffEntries ==
    (dpc = "compared" /\ o # NilObject /\ other # NilObject) =>
        /\ ("Name" \in DOMAIN diff) = (o.Name # other.Name)
        /\ ("Desc" \in DOMAIN diff) = (o.Desc # other.Desc)
        /\ ("Type" \in DOMAIN diff) = (o.Type # other.Type)
        /\ "Name" \in DOMAIN diff => diff["Name"] = <<StringValue(o.Name), StringValue(other.Name)>>
        /\ "Desc" \in DOMAIN diff => diff["Desc"] = <<StringValue(o.Desc), StringValue(other.Desc)>>
        /\ "Type" \in DOMAIN diff => diff["Type"] = <<StringValue(o.Type), StringValue(other.Type)>>
        /\ DOMAIN diff \ {"Name", "Desc", "Type"} = {"Props." \o k : k \in DifferingProps(o, other)}
        /\ \A k \in DifferingProps(o, other) :
              diff["Props." \o k] = <<SideValue(o, k), SideValue(other, k)>>
        /\ (/\ o.Name = other.Name /\ o.Desc = other.Desc /\ o.Type = other.Type
            /\ DOMAIN o.Props = DOMAIN other.Props
            /\ Cardinality(DifferingProps(o, other)) = 1)
           => Cardinality(DOMAIN diff) = 1

\* C11 witness: two objects alike but for the value of property foo have been
\* compared, and a pair with a key on one side only exists as well
C11_Witness ==
    /\ dpc = "compared" /\ o # NilObject /\ other # NilObject
    /\ o.Name = other.Name /\ o.Desc = other.Desc /\ o.Type = other.Type
    /\ DOMAIN o.Props = {"foo"} /\ DOMAIN other.Props = {"foo"}
    /\ o.Props["foo"] = StringValue("bar") /\ other.Props["foo"] = IntValue(1)
    /\ diff = [key \in {"Props.foo"} |-> <<StringValue("bar"), IntValue(1)>>]

\* C12: Equal is true exactly when both objects are nil, or both are present
\* with the same name, description and type and property maps of the same key
\* set and pairwise equal values; the Handle plays no part.
C12_EqualContent ==
    dpc = "compared" =>
        equal = IF o = NilObject \/ other = NilObject
                THEN o = NilObject /\ other = NilObject
                ELSE /\ o.Name = other.Name /\ o.Desc = other.Desc /\ o.Type = other.Type
                     /\ DOMAIN o.Props = DOMAIN other.Props
                     /\ \A k \in DOMAIN o.Props : SameValue(o.Props[k], other.Props[k])

\* C12 witness: two objects with different handles and the same content
\* (the number 1 once as an int, once as a decoded float64) compare equal
C12_Witness ==
    /\ dpc = "compared" /\ o # NilObject /\ other # NilObject
    /\ o.Handle # other.Handle
    /\ DOMAIN o.Props = {"x"} /\ o.Props["x"] = IntValue(1) /\ other.Props["x"] = FloatValue(1)
    /\ equal

IsList(c) == c.method = "GET" /\ c.path \in Range(WipeKinds)

\* C13 (state): a DELETE that failed is the invocation's last call, and the
\* invocation has failed
C13_FailedDeleteIsLast ==
    \A i \in DOMAIN calls :
        (IsDelete(calls[i]) /\ calls[i].outcome # "ok") => (i = Len(calls) /\ pc = "failed")

\* C13 (step): a listing that returned identifiers is followed by delAll; a
\* DELETE is for one identifier, the first one still listed, of the kind just
\* listed; no list or creation call is issued while listed identifiers are
\* left
C13_WipeStep ==
    \A c \in {calls'[i] : i \in DOMAIN calls'} :
        Issues(c) =>
            /\ (IsList(c) /\ c.outcome = "ok")
                  => /\ c.path = WipeKinds[kind]
                     /\ ids = <<>>
                     /\ ids' # <<>> => pc' = "wipe_del"
            /\ IsDelete(c)
                  => /\ ids # <<>> /\ c.id = Head(ids) /\ c.path = WipeKinds[kind]
                     /\ \E j \in DOMAIN calls : IsList(calls[j]) /\ calls[j].path = c.path
                           /\ \A l \in (j + 1)..Len(calls) : IsDelete(calls[l]) /\ calls[l].path = c.path
                     /\ c.outcome = "ok" => ids' = Tail(ids)
            /\ (IsList(c) \/ IsCreate(c)) => ids = <<>>

ScopeEmpty(store) ==
    /\ store.groups = {} /\ store.diagrams = {}
    /\ store.objects = {} /\ store.connections = {}

\* C14 (step): the step on which WipeVersion returns nil leaves the scope empty
C14_WipeReturnStep ==
    (pc \in {"wipe_list", "wipe_del"} /\ pc' \notin {"wipe_list", "wipe_del", "failed"})
        => ScopeEmpty(remote')

\* C14: after WipeVersion has returned without error the scope holds no
\* diagram-groups, no diagrams, no objects and no connections, whatever it
\* held before.
C14_WipeLeavesNothing == [][C14_WipeReturnStep]_vars

\* the line has one of the forms the scanner loop acts on
Recognized(text) ==
    LET line == TrimSpace(text) IN
    /\ line # "" /\ ~HasPrefix(line, "//")
    /\ \/ MatchPerson(line).ok \/ MatchSystem(line).ok
       \/ MatchBound(line).ok \/ MatchRel(line).ok

\* C15: ParseMermaid returns a Graph and no error for every input that could
\* be opened, and the Graph is the one the input gives once the lines of no
\* recognized form are taken out.
C15_NeverFailsOnContent ==
    /\ \A i \in DOMAIN parsed : parsed[i] # ErrTooLong
    /\ (ppc = "done" /\ lineNo = Len(lines))
          => p = ParseLines(newMermaidParser(NilObject), SelectSeq(lines, Recognized))

\* C16: in every Graph ParseMermaid returns, each Edge's source and target is
\* the handle of a Node of that Graph; a Rel or BiRel line naming an
\* undeclared identifier leaves no Edge with an unresolved endpoint.
C16_EdgesResolved ==
    \A i \in DOMAIN parsed :
        parsed[i] # ErrTooLong =>
            \A e \in Range(parsed[i].Connections) :
                {e.From, e.To} \subseteq {x.Handle : x \in Range(parsed[i].Objects)}

-----------------------------------------------------------------------------
(* Properties of the descriptor front end (SpecGenerate).                    *)

\* the files of the request Generate has processed so far
Processed == {i \in 1..fileNo : request.Files[i].Generate}

\* the positions of the boundary objects of package pkg in the extracted list
BoundariesOf(pkg) ==
    {i \in DOMAIN extracted :
        extracted[i].Type = C4SystemBoundary /\ extracted[i].ID = "boundary-" \o pkg}

\* C17: the object list of a Generate run holds exactly one System_Boundary
\* object per distinct non-empty package of the processed files, with
\* identifier "boundary-" + package, also when several files declare the same
\* package; a file with an empty package contributes none.
C17_OneBoundaryPerPackage ==
    gpc \in {"written", "loaded"} =>
        LET pkgs == {request.Files[i].Package : i \in Processed} \ {""} IN
        /\ \A pkg \in pkgs : Cardinality(BoundariesOf(pkg)) = 1
        /\ \A i \in DOMAIN extracted :
              extracted[i].Type = C4SystemBoundary => \E pkg \in pkgs : i \in BoundariesOf(pkg)

\* C18 (step): the turn of Generate's loop for a file to generate appends, for
\* each service of the file in declaration order, one object "service-" +
\* name, and every object it appends is speculative exactly when the prefix is
\* not empty and the file's path starts with it
C18_FileStep ==
    (gpc = "files" /\ fileNo' = fileNo + 1 /\ request.Files[fileNo + 1].Generate) =>
        LET file == request.Files[fileNo + 1]
            added == SubSeq(extracted', Len(extracted) + 1, Len(extracted'))
            services == SelectSeq(added, LAMBDA x : x.Type # C4SystemBoundary)
            tagged == /\ speculativePathPrefix # ""
                      /\ Len(file.Path) >= Len(speculativePathPrefix)
                      /\ SubSeq(file.Path, 1, Len(speculativePathPrefix)) = speculativePathPrefix
        IN  /\ SubSeq(extracted', 1, Len(extracted)) = extracted
            /\ Len(services) = Len(file.Services)
            /\ \A i \in DOMAIN services :
                  /\ services[i].ID = "service-" \o file.Services[i].Name
                  /\ services[i].Name = file.Services[i].Name
            /\ \A i \in DOMAIN added : added[i].IsSpeculative = tagged

C19_RoundTrip ==
    (gpc = "loaded" /\ genOptions.LandscapeID # "" /\ genOptions.VersionID # "") =>
        /\ loaded # UnmarshalError
        /\ loaded.Config = genOptions
        /\ loaded.Objects = [i \in DOMAIN extracted |->
              FileRecord(extracted[i].ID, extracted[i].Name, extracted[i].Description,
                         extracted[i].Type, extracted[i].Package)]

\* the parameter string holds the parameter wipe=true
WipeRequested(paramString) == \E i \in DOMAIN Split(paramString, ",") : Split(paramString, ",")[i] = "wipe=true"

\* C20: when the plugin parameters hold wipe=true, the generated file carries
\* the wipe flag as true, whether or not landscape and version are given.
C20_WipeFlagKept ==
    (gpc = "loaded" /\ loaded # UnmarshalError /\ WipeRequested(request.Parameter)) =>
        loaded.Config.Wipe

-----------------------------------------------------------------------------
(* Further properties of the workflows (Spec).                               *)

\* a DELETE, POST or PUT
IsMutating(c) == c.method \in {"DELETE", "POST", "PUT"}

\* C21 (state): a dry-run Upload has issued nothing but the scope-validation
\* GETs, two at most
C21_DryRunCalls ==
    (tool = "upload" /\ options.dryRun) =>
        /\ Len(calls) <= 2
        /\ \A i \in DOMAIN calls : IsValidation(calls[i]) /\ ~IsMutating(calls[i])

\* C21 (step): no step of a dry-run Upload changes the remote store
C21_DryRunStep == (tool = "upload" /\ options.dryRun) => remote' = remote

\* C21: with the dry-run option Upload issues no DELETE, POST or PUT for any
\* objects file, a wipe request in the file included; the remote store stays
\* as it was and at most the two validation GETs are issued.
C21_DryRunIsReadOnly == [](C21_DryRunCalls) /\ [][C21_DryRunStep]_vars

\* C21 witness: a dry-run Upload of a file that asks for a wipe and holds
\* records has finished after the two GETs, the store still holding content
C21_Witness ==
    /\ tool = "upload" /\ options.dryRun /\ options.wipe /\ pc = "done"
    /\ Len(objectsFile) > 0 /\ Len(calls) = 2
    /\ remote.objects # {} /\ remote.diagrams # {}

-----------------------------------------------------------------------------
(* The configuration: config.go (NewConfig, getEnvOr, getEnvIntOr).          *)
(* A time.Duration is an int64 count of nanoseconds.  The values exceed the  *)
(* checker's integers, so a natural number is the sequence of its base-256   *)
(* digits, least significant first and without leading zeros (<<>> is 0); an *)
(* int64 is a sign and such a magnitude.                                     *)

RECURSIVE Norm(_)
\* drops the leading zero digits
Norm(x) == IF x # <<>> /\ x[Len(x)] = 0 THEN Norm(SubSeq(x, 1, Len(x) - 1)) ELSE x

RECURSIVE MulSmallAdd(_, _, _)
\* x * k + c for k and c below 2^16
MulSmallAdd(x, k, c) ==
    IF x = <<>> THEN (IF c = 0 THEN <<>> ELSE <<c % 256>> \o MulSmallAdd(<<>>, k, c \div 256))
    ELSE LET t == x[1] * k + c
         IN Norm(<<t % 256>> \o MulSmallAdd(Tail(x), k, t \div 256))

RECURSIVE AddCarry(_, _, _)
AddCarry(x, y, c) ==
    IF x = <<>> /\ y = <<>> THEN (IF c = 0 THEN <<>> ELSE <<c>>)
    ELSE LET a == IF x = <<>> THEN 0 ELSE x[1]
             b == IF y = <<>> THEN 0 ELSE y[1]
             t == a + b + c
         IN <<t % 256>> \o AddCarry(IF x = <<>> THEN x ELSE Tail(x),
                                    IF y = <<>> THEN y ELSE Tail(y), t \div 256)

Add(x, y) == Norm(AddCarry(x, y, 0))

RECURSIVE Mul(_, _)
Mul(x, y) ==
    IF x = <<>> \/ y = <<>> THEN <<>>
    ELSE Add(MulSmallAdd(x, y[1], 0), Norm(<<0>> \o Mul(x, Tail(y))))

RECURSIVE Less(_, _)
\* x < y
Less(x, y) ==
    IF Len(x) # Len(y) THEN Len(x) < Len(y)
    ELSE IF x = <<>> THEN FALSE
    ELSE IF x[Len(x)] # y[Len(y)] THEN x[Len(x)] < y[Len(y)]
    ELSE Less(Norm(SubSeq(x, 1, Len(x) - 1)), Norm(SubSeq(y, 1, Len(y) - 1)))

IsDigit(ch) == ch \in {"0", "1", "2", "3", "4", "5", "6", "7", "8", "9"}
DigitValue(ch) == CHOOSE n \in 0..9 : Digit(n) = ch

RECURSIVE FromDecimal(_, _)
\* the number the decimal digits of text denote, after the digits of acc
FromDecimal(text, acc) ==
    IF text = "" THEN acc
    ELSE FromDecimal(Drop(text, 1), MulSmallAdd(acc, 10, DigitValue(Char(text, 1))))

Nat64(text) == FromDecimal(text, <<>>)

\* 1 << 63
TwoTo63 == <<0, 0, 0, 0, 0, 0, 0, 128>>

\* the low 64 bits of x
Low64(x) == Norm(SubSeq(x, 1, IF Len(x) < 8 THEN Len(x) ELSE 8))

\* 2^64 - x for 0 < x < 2^64: the two's complement
Neg64(x) ==
    LET padded   == [i \in 1..8 |-> IF i <= Len(x) THEN x[i] ELSE 0]
        inverted == [i \in 1..8 |-> 255 - padded[i]]
    IN Low64(Add(Norm(inverted), <<1>>))

\* an int64: its sign and its magnitude
Int64(neg, mag) == [neg |-> neg /\ mag # <<>>, mag |-> mag]

\* the int64 a 64-bit pattern denotes
Signed(bits) ==
    IF Len(bits) = 8 /\ bits[8] >= 128 THEN Int64(TRUE, Neg64(bits)) ELSE Int64(FALSE, bits)

\* a * b in int64 arithmetic: the product wraps modulo 2^64
MulInt64(a, b) ==
    LET bits == Low64(Mul(a.mag, b.mag))
    IN Signed(IF a.neg # b.neg /\ bits # <<>> THEN Neg64(bits) ELSE bits)

Nanosecond  == Int64(FALSE, Nat64("1"))
Microsecond == Int64(FALSE, Nat64("1000"))
Millisecond == Int64(FALSE, Nat64("1000000"))
Second      == Int64(FALSE, Nat64("1000000000"))
Minute      == Int64(FALSE, Nat64("60000000000"))
Hour        == Int64(FALSE, Nat64("3600000000000"))

\* time.ParseDuration's unit map (the micro sign spellings are left out)
UnitNames == {"ns", "us", "ms", "s", "m", "h"}
UnitOf(u) ==
    CASE u = "ns" -> Nanosecond [] u = "us" -> Microsecond [] u = "ms" -> Millisecond
      [] u = "s" -> Second [] u = "m" -> Minute [] u = "h" -> Hour

ParseError == [err |-> TRUE]
ParseOk(d) == [err |-> FALSE, d |-> d]

RECURSIVE leadingInt(_, _)
\* time.leadingInt: the leading digits of s as a number, and the rest of s;
\* an error when the number passes 1 << 63
leadingInt(s, x) ==
    IF s = "" \/ ~IsDigit(Char(s, 1)) THEN [err |-> FALSE, x |-> x, rem |-> s]
    ELSE IF Less(Nat64("922337203685477580"), x) THEN [err |-> TRUE]
    ELSE LET y == MulSmallAdd(x, 10, DigitValue(Char(s, 1)))
         IN IF Less(TwoTo63, y) THEN [err |-> TRUE] ELSE leadingInt(Drop(s, 1), y)

RECURSIVE UnitLen(_)
\* the length of the unit s starts with: up to the next digit or dot
UnitLen(s) ==
    IF s = "" \/ IsDigit(Char(s, 1)) \/ Char(s, 1) = "." THEN 0 ELSE 1 + UnitLen(Drop(s, 1))

RECURSIVE ParseGroups(_, _)
\* the loop of time.ParseDuration over the groups <digits><unit> of s, d the
\* sum so far (texts with a fraction are not among the inputs)
ParseGroups(s, d) ==
    IF s = "" THEN ParseOk(d)
    ELSE IF ~IsDigit(Char(s, 1)) THEN ParseError
    ELSE LET int == leadingInt(s, <<>>)
         IN IF int.err THEN ParseError
            ELSE LET i    == UnitLen(int.rem)
                     u    == SubSeq(int.rem, 1, i)
                     rest == Drop(int.rem, i)
                 IN IF i = 0 THEN ParseError                 \* missing unit
                    ELSE IF u \notin UnitNames THEN ParseError  \* unknown unit
                    ELSE LET v   == Mul(int.x, UnitOf(u).mag)
                             sum == Add(d, v)
                         IN IF Less(TwoTo63, v) \/ Less(TwoTo63, sum) THEN ParseError
                            ELSE ParseGroups(rest, sum)

\* time.ParseDuration(s): [-+]?(<digits><unit>)+, or "0" after the sign
ParseDuration(s) ==
    LET signed == s # "" /\ Char(s, 1) \in {"-", "+"}
        neg    == s # "" /\ Char(s, 1) = "-"
        body   == IF signed THEN Drop(s, 1) ELSE s
        groups == ParseGroups(body, <<>>)
    IN IF body = "0" THEN ParseOk(Int64(FALSE, <<>>))
       ELSE IF body = "" \/ groups.err THEN ParseError
       ELSE IF neg THEN ParseOk(Int64(TRUE, groups.d))
       ELSE IF ~Less(groups.d, TwoTo63) THEN ParseError
       ELSE ParseOk(Int64(FALSE, groups.d))

\* an environment variable: unset, or set to a text
Unset      == [exists |-> FALSE, value |-> ""]
SetTo(text) == [exists |-> TRUE, value |-> text]

getEnvOr(e, key, defaultValue) ==
    IF e[key].exists /\ e[key].value # "" THEN e[key].value ELSE defaultValue

\* int(intVal) keeps the int64 (a 64-bit build)
getEnvIntOr(e, key, defaultValue) ==
    IF e[key].exists /\ e[key].value # ""
    THEN LET intVal == ParseDuration(e[key].value)
         IN IF ~intVal.err THEN intVal.d ELSE defaultValue
    ELSE defaultValue

Getenv(e, key) == e[key].value

DefaultAPIBaseURL == "https://api.icepanel.io/v1"
DefaultTimeout    == Int64(FALSE, Nat64("30"))

NewConfig(e) ==
    [APIBaseURL     |-> getEnvOr(e, "ICEPANEL_API_URL", DefaultAPIBaseURL),
     RequestTimeout |-> MulInt64(getEnvIntOr(e, "ICEPANEL_TIMEOUT_SECONDS", DefaultTimeout),
                                 Second),
     DefaultToken   |-> Getenv(e, "ICEPANEL_TOKEN")]

-----------------------------------------------------------------------------
(* SpecConfig: NewConfig under every environment of the bounded set.         *)

MaxTimeoutLen == 3

TimeoutChars == {"0", "1", "6", "s", "m", "-"}

RECURSIVE TextsOfLen(_)
\* the texts of n characters over TimeoutChars
TextsOfLen(n) ==
    IF n = 0 THEN {""} ELSE {t \o ch : t \in TextsOfLen(n - 1), ch \in TimeoutChars}

TimeoutTexts == UNION {TextsOfLen(n) : n \in 0..MaxTimeoutLen}

Environments ==
    [ICEPANEL_API_URL         : {Unset, SetTo(""), SetTo("http://localhost:8080")},
     ICEPANEL_TIMEOUT_SECONDS : {Unset} \cup {SetTo(t) : t \in TimeoutTexts},
     ICEPANEL_TOKEN           : {Unset, SetTo("tok")}]

InitConfig ==
    /\ ClassIdle /\ DiffIdle /\ ParseIdle /\ FlowIdle /\ GenIdle
    /\ env \in Environments
    /\ cfg = NilObject
    /\ kpc = "start"

NewConfigCall ==
    /\ kpc = "start"
    /\ cfg' = NewConfig(env)
    /\ kpc' = "done"
    /\ UNCHANGED <<env, classVars, diffVars, parseVars, flowVars, genVars>>

NextConfig == NewConfigCall

SpecConfig == InitConfig /\ [][NextConfig]_vars

\* N seconds, N given by its decimal digits
Seconds(digits) == MulInt64(Int64(FALSE, Nat64(digits)), Second)

\* a positive decimal integer: digits only, not all of them zero
IsPositiveDecimal(text) ==
    /\ text # ""
    /\ \A i \in 1..Len(text) : IsDigit(Char(text, i))
    /\ \E i \in 1..Len(text) : Char(text, i) # "0"

\* C22: NewConfig sets RequestTimeout to N seconds when
\* ICEPANEL_TIMEOUT_SECONDS is a positive decimal integer N, and to 30 seconds
\* when the variable is unset or empty; the duration is positive.
C22_TimeoutSeconds ==
    kpc = "done" =>
        LET v == env["ICEPANEL_TIMEOUT_SECONDS"]
        IN /\ (v.exists /\ IsPositiveDecimal(v.value)) =>
                  /\ cfg.RequestTimeout = Seconds(v.value)
                  /\ ~cfg.RequestTimeout.neg /\ cfg.RequestTimeout.mag # <<>>
           /\ (~v.exists \/ v.value = "") => cfg.RequestTimeout = Seconds("30")

-----------------------------------------------------------------------------
(* Further properties of the workflows (Spec), continued.                    *)

\* the scope validation has succeeded among the first n calls
ValidatedWithin(n) ==
    /\ \E j \in 1..n : calls[j].method = "GET" /\ calls[j].path = "landscape"
                       /\ calls[j].outcome = "ok"
    /\ \E j \in 1..n : calls[j].method = "GET" /\ calls[j].path = "version"
                       /\ calls[j].outcome = "ok"

\* C23: the sync workflow confirms that the landscape and the version exist
\* remotely before its first mutating call: every DELETE and POST of a sync
\* run comes after a successful GET of the landscape and of the version.
C23_SyncValidatesFirst ==
    tool = "sync" =>
        \A i \in DOMAIN calls : IsMutating(calls[i]) => ValidatedWithin(i - 1)

\* C24: a list call of WipeVersion answered with a status of 300 or more is
\* an error: WipeVersion returns it, so the call is followed by no list call
\* and no DELETE and the workflow has failed.
C24_ListStatusIsError ==
    \A i \in DOMAIN calls :
        (IsList(calls[i]) /\ calls[i].outcome = "status") =>
            /\ \A j \in (i + 1)..Len(calls) : ~IsList(calls[j]) /\ ~IsDelete(calls[j])
            /\ i = Len(calls) => pc = "failed"

\* a CreateObject call: POST model/objects
IsCreateObject(c) == c.method = "POST" /\ c.path = "model/objects"

\* the positions of the CreateObject calls among the calls
CreateCalls == {i \in DOMAIN calls : IsCreateObject(calls[i])}

\* C25 (state): the k-th CreateObject call of an Upload carries the k-th
\* record of the array; it comes after the successful validation and after
\* every call of the wipe, no earlier call having failed (a listing's status
\* is not looked at); a CreateObject that failed is the last call and
\* Upload has failed; an Upload that is done and not a dry run has issued one
\* call per record
C25_CreateCalls ==
    tool = "upload" =>
        /\ \A i \in CreateCalls :
              LET k == Cardinality({j \in CreateCalls : j <= i}) IN
              /\ k <= Len(objectsFile)
              /\ calls[i].body = ToAPIObject(objectsFile[k])
              /\ ValidatedWithin(i - 1)
              /\ \A j \in 1..(i - 1) : calls[j].outcome = "ok" \/ IsList(calls[j])
              /\ \A j \in (i + 1)..Len(calls) : j \in CreateCalls
              /\ calls[i].outcome # "ok" => (i = Len(calls) /\ pc = "failed")
        /\ (pc = "done" /\ ~options.dryRun) => Cardinality(CreateCalls) = Len(objectsFile)

\* C25 (step): a step issues at most one call; a CreateObject that succeeded
\* adds its record to the store, one that failed leaves the store as it was
C25_CreateStep ==
    /\ Len(calls') <= Len(calls) + 1
    /\ \A c \in {calls'[i] : i \in DOMAIN calls'} :
          (Issues(c) /\ IsCreateObject(c)) =>
              remote' = IF c.outcome = "ok" THEN Created(remote, c.body) ELSE remote

\* C25: Upload issues CreateObject one at a time, one per record in array
\* order, only after validation and the optional wipe; the first CreateObject
\* that fails (transport error or status >= 300) ends Upload with an error:
\* no further remote call, the records before it created, nothing retried.
C25_CreateInOrderFailFast == [](C25_CreateCalls) /\ [][C25_CreateStep]_vars

\* C25 witness: Upload with a wipe created the first of two records and
\* failed on the second
C25_Witness ==
    /\ tool = "upload" /\ pc = "failed" /\ options.wipe /\ Len(objectsFile) = 2
    /\ objectsFile[1] # objectsFile[2]
    /\ Cardinality(CreateCalls) = 2
    /\ calls[Len(calls) - 1].outcome = "ok" /\ IsCreateObject(calls[Len(calls) - 1])
    /\ calls[Len(calls)].outcome = "status" /\ IsCreateObject(calls[Len(calls)])
    /\ ToAPIObject(objectsFile[1]) \in remote.objects
    /\ ToAPIObject(objectsFile[2]) \notin remote.objects
    /\ \E i \in DOMAIN calls : IsDelete(calls[i])

-----------------------------------------------------------------------------
(* Further properties of the parser (SpecParse).                             *)

\* C26: the output order is stable: two calls of ParseMermaid on the same
\* text return Diagrams whose Objects are in the same order.
C26_StableObjectOrder ==
    (Len(parsed) = 2 /\ parsed[1] # ErrTooLong /\ parsed[2] # ErrTooLong) =>
        parsed[1].Objects = parsed[2].Objects

\* C27: in every returned Diagram no two Objects have the same handle, and
\* every Connection endpoint denotes at most one Object.
C27_HandlesUnique ==
    \A n \in DOMAIN parsed :
        parsed[n] # ErrTooLong =>
            LET objs == parsed[n].Objects
                NodesOf(h) == {i \in DOMAIN objs : objs[i].Handle = h}
            IN /\ \A i, j \in DOMAIN objs : objs[i].Handle = objs[j].Handle => i = j
               /\ \A c \in Range(parsed[n].Connections) :
                     Cardinality(NodesOf(c.From)) <= 1 /\ Cardinality(NodesOf(c.To)) <= 1

-----------------------------------------------------------------------------
(* Further properties of the workflows (Spec): the checks of the inputs.     *)

\* C28 (state): a workflow that returned an error of its inputs has failed
\* with no call issued; one that issued a call or goes on had no such error
C28_NoCallOnInputError ==
    /\ err # "" => (calls = <<>> /\ pc = "failed")
    /\ err \in {"", ErrOpenFile, ErrParseFile, ErrMissingIDs,
                ErrRequiredFields, ErrTokenRequired, ErrReadMermaid}
    /\ (tool = "upload" /\ err # "") => err \in {ErrOpenFile, ErrParseFile, ErrMissingIDs}
    /\ (tool = "sync" /\ err # "") => err \in {ErrRequiredFields, ErrTokenRequired, ErrReadMermaid}

\* C28 (step): the step that detects the error issues no call and leaves the
\* remote store as it was, and a workflow stopped by it never issues one
C28_InputErrorStep ==
    (err' # "" \/ err # "") => (calls' = <<>> /\ remote' = remote)

\* C28: failures of the inputs are detected before any remote call in both
\* workflows: Upload issues no call when the objects file cannot be opened,
\* read or parsed or when the landscape or version id is empty after the
\* overrides; the sync run issues none when a required flag or the token is
\* missing or the Mermaid file cannot be read (no wipe before a failed parse).
C28_InputsCheckedFirst == [](C28_NoCallOnInputError) /\ [][C28_InputErrorStep]_vars

\* C28 witness: an Upload of a parsed file without landscape or version id
\* was stopped with no call issued, the store holding content
C28_Witness ==
    /\ tool = "upload" /\ err = ErrMissingIDs /\ pc = "failed" /\ calls = <<>>
    /\ Len(objectsFile) > 0 /\ options.wipe
    /\ remote.objects # {} /\ remote.diagrams # {}

\* the identifier and the label of a line System_Boundary(id, "label")
BoundaryId(text) == MatchIdent(Drop(TrimSpace(text), 16))
BoundaryLabel(text) == MatchQuoted(BoundaryId(text).rest)

\* the line is a boundary declaration System_Boundary(id, "label") / a closing line
IsBoundaryLine(text) ==
    /\ HasPrefix(TrimSpace(text), "System_Boundary(")
    /\ BoundaryId(text).ok
    /\ BoundaryLabel(text).ok /\ HasPrefix(BoundaryLabel(text).rest, ")")
IsCloseLine(text) == HasPrefix(TrimSpace(text), "}")

\* the lines scanned so far
Scanned == SubSeq(lines, 1, lineNo)

\* the lines scanned so far without the boundary declarations and closing lines
ScannedFlat == SelectSeq(Scanned, LAMBDA t : ~IsBoundaryLine(t) /\ ~IsCloseLine(t))

\* the identifiers the boundary declarations scanned so far declare
BoundaryIds == {BoundaryId(Scanned[i]).g : i \in {j \in DOMAIN Scanned : IsBoundaryLine(Scanned[j])}}

\* C29 (state): the parser holds what it would hold had the boundary
\* declarations and closing lines not been there, plus the boundaries' own
\* Nodes: the same Connections and handle counter, every other Node with the
\* same content, and for each boundary a Node of type group with empty
\* description and no properties
C29_FlatState ==
    LET q == ParseLines(newMermaidParser(NilObject), ScannedFlat) IN
    /\ p.conns = q.conns /\ p.idSeq = q.idSeq
    /\ DOMAIN q.objs \subseteq DOMAIN p.objs
    /\ DOMAIN p.objs \ DOMAIN q.objs \subseteq BoundaryIds
    /\ \A id \in DOMAIN q.objs \ BoundaryIds : p.objs[id] = q.objs[id]
    /\ \A id \in BoundaryIds :
          /\ id \in DOMAIN p.objs
          /\ id \notin DOMAIN q.objs =>
                /\ p.objs[id].Type = "group" /\ p.objs[id].Desc = ""
                /\ p.objs[id].Handle = slug(id) /\ p.objs[id].Props = EmptyMap

\* C29 (step): scanning a boundary declaration whose identifier is new adds
\* one Node for it and changes nothing else; one whose identifier is declared
\* already, and a closing line, change nothing
C29_FlatStep ==
    (lineNo' = lineNo + 1) =>
        LET text == lines[lineNo + 1]
            m    == [id |-> BoundaryId(text).g, name |-> BoundaryLabel(text).g]
        IN /\ IsCloseLine(text) => p' = p
           /\ IsBoundaryLine(text) =>
                 /\ p'.conns = p.conns /\ p'.idSeq = p.idSeq
                 /\ \A id \in DOMAIN p.objs : id \in DOMAIN p'.objs /\ p'.objs[id] = p.objs[id]
                 /\ DOMAIN p'.objs = DOMAIN p.objs \cup {m.id}
                 /\ m.id \notin DOMAIN p.objs =>
                        p'.objs[m.id] = Object(slug(m.id), m.name, "", "group", EmptyMap)

\* C29, as stated: every System_Boundary line adds exactly one Node.
C29_BoundaryLineAddsOneNode ==
    [][(lineNo' = lineNo + 1 /\ IsBoundaryLine(lines[lineNo + 1]))
          => Cardinality(DOMAIN p'.objs) = Cardinality(DOMAIN p.objs) + 1]_vars

\* C29, amended: boundaries are flat: a System_Boundary(id, "label") line
\* whose identifier is not declared yet adds exactly one Node of type group
\* with empty description (a declared identifier is left as it is);
\* declarations between the opening line and the closing line are added as if
\* they stood at top level; a closing line leaves the Graph unchanged.
C29_BoundariesAreFlat == [](C29_FlatState) /\ [][C29_FlatStep]_vars

\* C29 witness: a boundary, a declaration inside it and the closing line
\* have been scanned: the group Node and the declaration's Node are there
C29_Witness ==
    /\ lineNo = 3
    /\ IsBoundaryLine(lines[1]) /\ MatchSystem(TrimSpace(lines[2])).ok /\ IsCloseLine(lines[3])
    /\ Cardinality(DOMAIN p.objs) = 2
    /\ \E id \in BoundaryIds : p.objs[id].Type = "group" /\ p.objs[id].Desc = ""

-----------------------------------------------------------------------------
(* Further properties of the diff engine (SpecDiff).                         *)

\* C30: Equal and Diff agree as no-op tests: for all o and other, nil ones
\* included, o.Equal(other) is true exactly when o.Diff(other) is empty.
C30_EqualIffDiffEmpty ==
    dpc = "compared" => (equal <=> DOMAIN diff = {})

====
